---- MODULE Spec2Model ----
(***************************************************************************)
(* Model of the libFuzzer engine of clusterfuzz                            *)
(* (src/clusterfuzz/_internal/bot/fuzzers/libFuzzer/engine.py).            *)
(*                                                                         *)
(* The Engine is used from one thread: a top-level call (fuzz, or         *)
(* minimize_corpus called directly) blocks until it returns or raises.     *)
(* _minimize_corpus_two_step runs inside fuzz, called by _merge_new_units. *)
(* The model splits a call at its Runner.merge invocations: pc names the   *)
(* Runner.merge invocation the running call is about to make, and each     *)
(* action is one Runner invocation, its result, and all the code that runs *)
(* up to the next Runner.merge invocation or to the end of the top-level   *)
(* call.  The Runner is an external process: what it returns and what it   *)
(* writes are chosen nondeterministically.  A finished call leaves its     *)
(* result in ret (pc = "done") until the caller makes the next call.       *)
(*                                                                         *)
(* Durations are integers (seconds), where the code has floats; a          *)
(* directory holds a set of unit names.  merge_calls, created,             *)
(* two_step_ret and ret record what a call did; the code reads none of     *)
(* them.                                                                   *)
(*                                                                         *)
(* The metrics monitor (src/clusterfuzz/_internal/metrics/monitor.py) is   *)
(* modelled beside the engine, with variables and specifications of its    *)
(* own: the monitoring daemon with its caller and its flushing thread,     *)
(* and the metrics store with the threads that update and read it.  An     *)
(* update of the store is split where another thread could run: entering   *)
(* the lock, reading the stored value, writing the new one.  A run of      *)
(* _flush_metrics is modelled one stored value at a time, over stores of   *)
(* the sizes around MAX_TIME_SERIES_PER_CALL.                              *)
(*                                                                         *)
(* Device flashing (src/clusterfuzz/_internal/platforms/android/flash.py)  *)
(* is modelled as the flash_to_latest_build_if_needed calls of the bots    *)
(* of one host, which share the host's flash lock.  The lock is that of    *)
(* datastore/locks.py: acquire_lock gives it to one caller at a time.      *)
(* A step of one component leaves the variables of the others unchanged.   *)
(***************************************************************************)
EXTENDS Integers, Sequences, FiniteSets, TLC

\* ------------------------------------------------------------------ bounds
MaxOps == 2       \* top-level calls made on one Engine
MaxTime == 2      \* largest time budget and largest elapsed time of a run
MaxCov == 1       \* largest coverage value a merge log reports
MaxTicks == 2     \* timeouts of the flushing thread's wait
MaxStops == 2     \* SIGTERM signals handled by the monitor's caller
MaxUpdates == 3   \* put, increment and get calls made on the metrics store

\* the unit names a directory can hold
Units == {"u1"}

\* --------------------------------------------------------------- constants
None == "None"

\* constants.LIBFUZZER_ERROR_EXITCODE, constants.NONCRASH_RETURN_CODES
LIBFUZZER_ERROR_EXITCODE == 1
NONCRASH_RETURN_CODES == {0, LIBFUZZER_ERROR_EXITCODE}
\* return codes a fuzz run is observed with: success, engine error, crash
ReturnCodes == {0, LIBFUZZER_ERROR_EXITCODE, 2}

\* the directory fuzzer_utils.get_temp_dir() names: one per process
TempDir == "/tmp/temp-1"

\* a target binary: does the file exist, does it hold
\* MULTISTEP_MERGE_SUPPORT_TOKEN
Targets == {[exists |-> FALSE, has_token |-> FALSE],
            [exists |-> TRUE, has_token |-> FALSE],
            [exists |-> TRUE, has_token |-> TRUE]}

\* FuzzOptions as prepare() builds them: corpus_dir is the main corpus,
\* fuzz_corpus_dirs is the subset directory or the main corpus
FuzzOptionsSet ==
  [corpus_dir : {"corpus"},
   arguments : {[f \in {"timeout"} |-> 5]},
   strategies : {{}},
   fuzz_corpus_dirs : {<<"corpus">>, <<"subset">>, <<"mutations", "corpus">>},
   extra_env : {[n \in {"ASAN_OPTIONS"} |-> "strategy"]},
   merge_back_new_testcases : BOOLEAN]

\* what Runner.fuzz returns and leaves behind: the RunResult fields, what
\* the log holds (a crash-artifact path, the kernel-panic marker), and the
\* units written to the first corpus directory
RunnerFuzzResults ==
  [return_code : ReturnCodes,
   timed_out : BOOLEAN,
   time_executed : {1},
   testcase_path : {None, "artifact"},
   kernel_panic : BOOLEAN,
   new_units : SUBSET Units]

\* what Runner.merge returns and leaves behind: the RunResult fields, the
\* coverage its log reports, and the units written to the output directory;
\* the log of a merge that timed out or failed is never parsed, so its
\* coverage is left at 0
RunnerMergeResults ==
  {r \in [return_code : {0, 1},
          timed_out : BOOLEAN,
          time_executed : {1, MaxTime, MaxTime + 1},
          edge_coverage : 0..MaxCov,
          feature_coverage : 0..MaxCov,
          out_units : SUBSET Units,
          raised : {FALSE}] :
     (r.timed_out \/ r.return_code # 0) =>
       (r.edge_coverage = 0 /\ r.feature_coverage = 0)}

\* threads that use the metrics store
Threads == {"t1", "t2"}

\* the metric the threads update: a _CounterMetric
MetricNames == {"task_count"}

\* _CounterMetric.default_value
default_value == 0

\* label names, with their place in the order of sorted()
LabelRank == [n \in {"job", "platform"} |-> IF n = "job" THEN 1 ELSE 2]

\* label mappings in the order their items were inserted; <<>> is both the
\* empty mapping and None
LabelInputs ==
  {<<>>,
   <<<<"job", "j">>, <<"platform", "p">>>>,
   <<<<"platform", "p">>, <<"job", "j">>>>}

\* the deltas of increment and the values of put
Deltas == {1, 2}

FLASH_RETRIES == 3

\* bots on one host that call flash_to_latest_build_if_needed
Callers == {"bot1", "bot2"}

\* how a call goes up to the branch at the device kind: it returns early,
\* the device is a cuttlefish instance, or it is a device to flash
FlashKinds == {"skip", "cuttlefish", "device"}

MAX_TIME_SERIES_PER_CALL == 200

\* the sizes of the store a flush run iterates over
StoreSizes ==
  {0, 1, MAX_TIME_SERIES_PER_CALL - 1, MAX_TIME_SERIES_PER_CALL,
   MAX_TIME_SERIES_PER_CALL + 1, 2 * MAX_TIME_SERIES_PER_CALL,
   2 * MAX_TIME_SERIES_PER_CALL + 1}

\* time.time() at the start of a flush run, later than every start_time
EndTime == 9

\* the i-th _StoreValue of the store: gauges and counters, whose start
\* times are not in the order of the store
StoredValue(i) ==
  [id |-> i,
   metric_kind |-> IF i % 2 = 0 THEN "GAUGE" ELSE "CUMULATIVE",
   start_time |-> 1 + ((i * 2) % 3)]

\* what decides the errors fuzz() logs besides the return code: whether the
\* output matches DICT_PARSING_FAILED_REGEX, and the USE_MINIJAIL setting
FuzzOutputClasses == [dict_parsing_failed : BOOLEAN, use_minijail : BOOLEAN]

\* an output without a dictionary failure, outside the sandboxing layer
PlainOutput == [dict_parsing_failed |-> FALSE, use_minijail |-> FALSE]

\* the options of the fuzz phases whose logging is examined
LogOptionsSet == {o \in FuzzOptionsSet : o.fuzz_corpus_dirs = <<"corpus">>}

\* Runner.merge ends with an exception of its own instead of a result; it
\* may have written units before
RunnerMergeRaises ==
  [return_code : {0},
   timed_out : {FALSE},
   time_executed : {0},
   edge_coverage : {0},
   feature_coverage : {0},
   out_units : SUBSET Units,
   raised : {TRUE}]

\* the ways a Runner.merge invocation ends
RunnerMergeOutcomes == RunnerMergeResults \cup RunnerMergeRaises

\* constants.RUNS_FLAGNAME, constants.TIMEOUT_FLAGNAME, constants.DICT_FLAGNAME
RUNS_FLAGNAME == "runs"
TIMEOUT_FLAGNAME == "timeout"
DICT_FLAGNAME == "dict"

\* constants.RUNS_TO_REPRODUCE
RUNS_TO_REPRODUCE == 100

\* the flags libfuzzer.strip_fuzzing_arguments removes
FuzzingOnlyFlags == {RUNS_FLAGNAME, TIMEOUT_FLAGNAME}

\* An argument list is a mapping from flag names to values, as
\* FuzzerArguments holds it.  The lists a caller hands to reproduce,
\* minimize_testcase and cleanse:
ReproductionFlags == {RUNS_FLAGNAME, TIMEOUT_FLAGNAME, "rss_limit_mb"}
ArgumentLists == UNION {[S -> {5}] : S \in SUBSET ReproductionFlags}

\* what run_single_testcase, minimize_crash and cleanse_crash return
RunnerRunResults ==
  [command : {"cmd"},
   return_code : ReturnCodes,
   timed_out : BOOLEAN,
   time_executed : {1, MaxTime},
   output : {"", "log"}]

\* environment variable names, and the extra environments prepare() gets:
\* fuzzer.get_extra_env(target_path), which may be None, and
\* strategy_info.extra_env
EnvNames == {"ASAN_OPTIONS", "TMPDIR"}
TargetExtraEnvs ==
  {[is_none |-> TRUE, env |-> [n \in {} |-> "target"]]} \cup
  {[is_none |-> FALSE, env |-> e] :
     e \in UNION {[S -> {"target"}] : S \in SUBSET EnvNames}}
StrategyExtraEnvs == UNION {[S -> {"strategy"}] : S \in SUBSET EnvNames}

\* fuzzer.get_arguments(target_path): with or without a dictionary flag;
\* strategy_info.arguments
TargetArguments ==
  {[f \in {} |-> None], [f \in {DICT_FLAGNAME} |-> "explicit.dict"]}
StrategyArguments == {[f \in {} |-> 0], [f \in {"max_len"} |-> 5]}

\* strategy_info.fuzzing_strategies as pick_strategies returns it
USE_EXTRA_SANITIZERS_STRATEGY == "use_extra_sanitizers"
StrategyLists == SUBSET {USE_EXTRA_SANITIZERS_STRATEGY}

\* dictionary_manager.get_default_dictionary_path(target_path)
DefaultDictPath == "target.dict"

\* strategy_info.additional_corpus_dirs as pick_strategies returns it: empty,
\* or the directory of generated mutations
StrategyCorpusDirs == {<<>>, <<"mutations">>}

\* engine_common.CORPUS_SUBSET_NUM_TESTCASES, scaled to the corpus sizes of
\* the model
SubsetSizes == {0, 1}

VARIABLES
  pc,                  \* "idle"; the Runner.merge invocation about to be
                       \* made: "step1", "step2", "single"; "done" when
                       \* a call has ended and its result is in ret
  op,                  \* the top-level call in progress, "none" when idle
  merge_control_file,  \* Engine._merge_control_file
  fs,                  \* directory contents: corpus, new, out (sets of
                       \* units), placeholders (files made by mkstemp)
  fz,                  \* fuzz() locals of the current / last fuzz call
  mg,                  \* _merge_new_units / two-step locals
  merge_calls,         \* Runner.merge invocations of the current / last
                       \* top-level call, with their results
  created,             \* directories (re)created by the current / last call
  two_step_ret,        \* how the last _minimize_corpus_two_step call ended
  ret,                 \* how the last top-level call ended
  rp,                  \* the last reproduce / minimize_testcase / cleanse
                       \* call: its arguments, its Runner invocations, its
                       \* ReproduceResult
  pz,                  \* the last prepare() call: its inputs and the
                       \* FuzzOptions it returned
  ncalls,              \* top-level calls started so far
  \* ---- monitor.py: _MonitoringDaemon, initialize(), stop()
  caller,              \* the thread using the monitor: "idle" before
                       \* initialize(), "body" outside stop(), "join" in
                       \* stop() after the event was set, "returned" once
                       \* a stop() call has returned
  daemon_made,         \* _monitoring_daemon is set (and started)
  thread,              \* the flushing thread: "unstarted", "wait" in
                       \* Event.wait, "woke" once wait has returned, "flush"
                       \* inside the flush function, "exited"
  stop_event,          \* _flushing_thread_stop_event is set
  should_stop,         \* should_stop of _flush_loop
  ticks,               \* waits of the flushing thread that timed out
  handler,             \* handle_sigterm running on top of the caller:
                       \* "none", "join" in its stop() call, "done" once
                       \* that call has returned
  stops,               \* stop() calls started
  flushes_after_set,   \* flush-function calls begun with the event set
  \* ---- monitor.py: _MetricsStore
  store,               \* _MetricsStore._store: key -> _StoreValue
  lock,                \* the thread holding _MetricsStore._lock, or None
  locals,              \* per thread: the call it is in and its locals
  now,                 \* what time.time() returns next
  nupdates,            \* store calls started so far
  hist,                \* per key: what the completed updates wrote
  \* ---- monitor.py: _flush_metrics
  fpc,                 \* "idle", "loop" inside the for loop, "done" when
                       \* the run has ended without an error, "failed"
                       \* when an exception reached the except clause
  fvalues,             \* what iter_values() yields in this run
  fpos,                \* values taken from iter_values() so far
  time_series,         \* the local list time_series
  sent,                \* the _create_time_series calls of this run
  \* ---- flash.py: flash_to_latest_build_if_needed
  cpc,                 \* per caller: "start"; "acquire" before
                       \* acquire_lock; "attempt" at the head of the
                       \* retry loop; "flashing" while the fastboot
                       \* commands of one attempt run; "release" after the
                       \* loop; "check" at the device check after the
                       \* branch; "returned"; "exited" in bad_state_reached
  flash_lock,          \* the caller holding the host flash lock, or None
  attempts,            \* per caller: turns of the retry loop begun
  device_ok,           \* per caller: get_device_state() gave 'device' in
                       \* the last turn
  acquired,            \* callers whose acquire_lock succeeded
  lock_failed,         \* callers whose acquire_lock failed
  fastboot_issued,     \* callers that ran a fastboot command
  key_writers          \* callers that wrote the last-flash keys

engine_vars == <<pc, op, merge_control_file, fs, fz, mg, merge_calls,
                 created, two_step_ret, ret, rp, pz, ncalls>>

daemon_vars == <<caller, daemon_made, thread, stop_event, should_stop,
                 ticks, handler, stops, flushes_after_set>>

store_vars == <<store, lock, locals, now, nupdates, hist>>

flush_vars == <<fpc, fvalues, fpos, time_series, sent>>

flash_vars == <<cpc, flash_lock, attempts, device_ok, acquired, lock_failed,
                fastboot_issued, key_writers>>

vars == <<engine_vars, daemon_vars, store_vars, flush_vars, flash_vars>>

\* ----------------------------------------------------------------- values
NoStats == [k \in {} |-> 0]

NoRet == [op |-> "none", kind |-> "none", exc |-> None, crashes |-> <<>>,
          stats |-> NoStats, time_executed |-> 0, timed_out |-> FALSE]

NoTwoStepRet == [kind |-> "none", exc |-> None, at |-> None,
                 crashes |-> <<>>, stats |-> NoStats, time_executed |-> 0]

NoFuzzResult == [return_code |-> 0, timed_out |-> FALSE, time_executed |-> 0,
                 testcase_path |-> None, kernel_panic |-> FALSE,
                 new_units |-> {}]

NoOptions == [corpus_dir |-> None, arguments |-> [f \in {} |-> None],
              strategies |-> {}, fuzz_corpus_dirs |-> <<>>,
              extra_env |-> [n \in {} |-> None],
              merge_back_new_testcases |-> FALSE]

NoFz == [merge_back |-> FALSE, corpus_dir |-> None,
         fuzz_corpus_dirs |-> <<>>, corpus_directories |-> <<>>,
         max_time |-> 0, result |-> NoFuzzResult,
         crash_testcase_file_path |-> None, parsed_stats |-> NoStats,
         target |-> [exists |-> FALSE, has_token |-> FALSE],
         runner_fuzz_calls |-> <<>>,
         corpus_before |-> {}, corpus_after_run |-> {},
         options_before |-> NoOptions, options_after |-> NoOptions,
         output |-> [dict_parsing_failed |-> FALSE, use_minijail |-> FALSE],
         logged |-> <<>>]

NoMg == [existing_corpus_dirs |-> <<>>, new_corpus_dir |-> None,
         output_corpus_dir |-> None, max_time |-> 0,
         initial_edge_coverage |-> 0, initial_feature_coverage |-> 0,
         time_executed_1 |-> 0, old_corpus |-> {}]

NoReproduceResult == [command |-> None, return_code |-> 0,
                      time_executed |-> 0, output |-> None]

NoRp == [op |-> "none", arguments |-> [f \in {} |-> 0], max_time |-> 0,
         runner_calls |-> <<>>,
         runner_result |-> [command |-> None, return_code |-> 0,
                            timed_out |-> FALSE, time_executed |-> 0,
                            output |-> None],
         result |-> NoReproduceResult]

NoPz == [called |-> FALSE,
         extra_env |-> [is_none |-> TRUE, env |-> [n \in {} |-> "target"]],
         strategy_extra_env |-> [n \in {} |-> "strategy"],
         arguments |-> [f \in {} |-> None],
         dict_exists |-> FALSE, default_dict_exists |-> FALSE,
         do_subset |-> FALSE, subset_size |-> 0, corpus_count |-> 0,
         strategy_corpus_dirs |-> <<>>,
         subset_units |-> {}, use_extra_sanitizers |-> FALSE,
         options |-> NoOptions]

EngineInit ==
  /\ pc = "idle"
  /\ op = "none"
  /\ merge_control_file = None
  /\ fs \in [corpus : SUBSET Units, new : {{}}, out : {{}},
             placeholders : {0}]
  /\ fz = NoFz
  /\ mg = NoMg
  /\ merge_calls = <<>>
  /\ created = {}
  /\ two_step_ret = NoTwoStepRet
  /\ ret = NoRet
  /\ rp = NoRp
  /\ pz = NoPz
  /\ ncalls = 0

\* no initialize() call yet: no daemon, no thread
DaemonInit ==
  /\ caller = "idle"
  /\ daemon_made = FALSE
  /\ thread = "unstarted"
  /\ stop_event = FALSE
  /\ should_stop = FALSE
  /\ ticks = 0
  /\ handler = "none"
  /\ stops = 0
  /\ flushes_after_set = 0

\* a thread outside the store
NoLocals == [pc |-> "idle", call |-> "none", metric |-> "none",
             labels |-> <<>>, arg |-> 0,
             key |-> <<>>, start_time |-> 0, value |-> 0,
             observed |-> <<>>]

\* an empty store, nobody in it
StoreInit ==
  /\ store = [k \in {} |-> 0]
  /\ lock = None
  /\ locals = [t \in Threads |-> NoLocals]
  /\ now = 1
  /\ nupdates = 0
  /\ hist = [k \in {} |-> 0]

\* no flush run yet
FlushInit ==
  /\ fpc = "idle"
  /\ fvalues = <<>>
  /\ fpos = 0
  /\ time_series = <<>>
  /\ sent = <<>>

\* no caller has started, the lock is free
FlashInit ==
  /\ cpc = [c \in Callers |-> "start"]
  /\ flash_lock = None
  /\ attempts = [c \in Callers |-> 0]
  /\ device_ok = [c \in Callers |-> FALSE]
  /\ acquired = {}
  /\ lock_failed = {}
  /\ fastboot_issued = {}
  /\ key_writers = {}

Init == EngineInit /\ DaemonInit /\ StoreInit /\ FlushInit /\ FlashInit

\* --------------------------------------------------------- pure functions

\* mutant: the token is not searched, any existing binary qualifies
_is_multistep_merge_supported_NoProbe(target) == target.exists

\* _is_multistep_merge_supported
_is_multistep_merge_supported(target) ==
  IF target.exists THEN target.has_token ELSE FALSE

\* engine_common.create_temp_fuzzing_dir(name): the path it returns
create_temp_fuzzing_dir(name) == TempDir \o "/" \o name

\* os.path.join(merge_control_file_dir, 'MCF')
McfPath == create_temp_fuzzing_dir("mcf_tmp_dir") \o "/MCF"

\* stats.parse_stats_from_merge_log
parse_stats_from_merge_log(r) ==
  [edge_coverage |-> r.edge_coverage, feature_coverage |-> r.feature_coverage]

\* mutant: a non-zero return code is not an error
MinimizeCorpusExc_IgnoreReturnCode(r) ==
  IF r.raised THEN "RunnerError"
  ELSE IF r.timed_out THEN "TimeoutError"
  ELSE None

\* mutant: the return code is looked at before the timeout flag
MinimizeCorpusExc_ReturnCodeFirst(r) ==
  IF r.raised THEN "RunnerError"
  ELSE IF r.return_code # 0 THEN "MergeError"
  ELSE IF r.timed_out THEN "TimeoutError"
  ELSE None

\* the exception that leaves minimize_corpus, None if it returns: the one
\* Runner.merge raised, or the one raised for the Runner result
MinimizeCorpusExc(r) ==
  IF r.raised THEN "RunnerError"
  ELSE IF r.timed_out THEN "TimeoutError"
  ELSE IF r.return_code # 0 THEN "MergeError"
  ELSE None

\* mutant: the working directory is emptied after the merge only if
\* Runner.merge returned
MinimizeCorpusTrace_NoFinally(r) ==
  IF r.raised
    THEN <<"recreate merge-wd", "Runner.merge">>
    ELSE <<"recreate merge-wd", "Runner.merge", "recreate merge-wd">>

\* What minimize_corpus does to the merge working directory: _create_temp_dir
\* recreates it, Runner.merge runs in the try block, the finally block
\* recreates it again.
MinimizeCorpusTrace(r) ==
  <<"recreate merge-wd", "Runner.merge", "recreate merge-wd">>

\* mutant: minimize_corpus does not hand the merge control file on
MergeCall_NoControlFile(kind, input_dirs, output_dir, max_time, r) ==
  [kind |-> kind,
   dirs |-> <<output_dir>> \o input_dirs,
   merge_timeout |-> max_time,
   merge_control_file |-> None,
   timed_out |-> r.timed_out,
   return_code |-> r.return_code,
   time_executed |-> r.time_executed,
   edge_coverage |-> r.edge_coverage,
   feature_coverage |-> r.feature_coverage,
   out_units |-> r.out_units,
   raised |-> r.raised,
   trace |-> MinimizeCorpusTrace(r)]

\* the Runner.merge invocation minimize_corpus makes
MergeCall(kind, input_dirs, output_dir, max_time, r) ==
  [kind |-> kind,
   dirs |-> <<output_dir>> \o input_dirs,
   merge_timeout |-> max_time,
   merge_control_file |-> merge_control_file,
   timed_out |-> r.timed_out,
   return_code |-> r.return_code,
   time_executed |-> r.time_executed,
   edge_coverage |-> r.edge_coverage,
   feature_coverage |-> r.feature_coverage,
   out_units |-> r.out_units,
   raised |-> r.raised,
   trace |-> MinimizeCorpusTrace(r)]

\* engine_common.get_merge_timeout(engine_common.DEFAULT_MERGE_TIMEOUT)
get_merge_timeout == MaxTime

\* mutant: step 2 gets the whole budget again
RemainingTime_NoDeduct(max_time, result_1) == max_time

\* the budget left for step 2
RemainingTime(max_time, result_1) == max_time - result_1.time_executed

\* mutant: the budget check lets a remainder of zero through
BudgetExhausted_Strict(remaining) == remaining < 0

\* the budget check between the two steps
BudgetExhausted(remaining) == remaining <= 0

\* mutant: the negative deltas are reported as they are
TwoStepStats_NoClamp(s1, s2) ==
  [initial_edge_coverage |-> s1.edge_coverage,
   initial_feature_coverage |-> s1.feature_coverage,
   edge_coverage |-> s2.edge_coverage,
   feature_coverage |-> s2.feature_coverage,
   new_edges |-> s2.edge_coverage - s1.edge_coverage,
   new_features |-> s2.feature_coverage - s1.feature_coverage]

\* mutant: each delta is clamped on its own
TwoStepStats_ClampEach(s1, s2) ==
  LET new_edges == s2.edge_coverage - s1.edge_coverage
      new_features == s2.feature_coverage - s1.feature_coverage
  IN [initial_edge_coverage |-> s1.edge_coverage,
      initial_feature_coverage |-> s1.feature_coverage,
      edge_coverage |-> s2.edge_coverage,
      feature_coverage |-> s2.feature_coverage,
      new_edges |-> IF new_edges < 0 THEN 0 ELSE new_edges,
      new_features |-> IF new_features < 0 THEN 0 ELSE new_features]

\* mutant: the initial coverage is taken from step 2
TwoStepStats_InitialFromStep2(s1, s2) ==
  [initial_edge_coverage |-> s2.edge_coverage,
   initial_feature_coverage |-> s2.feature_coverage,
   edge_coverage |-> s2.edge_coverage,
   feature_coverage |-> s2.feature_coverage,
   new_edges |-> 0,
   new_features |-> 0]

\* merge_stats of the two-step merge, after the clamp
TwoStepStats(s1, s2) ==
  LET new_edges == s2.edge_coverage - s1.edge_coverage
      new_features == s2.feature_coverage - s1.feature_coverage
      inconsistent == new_edges < 0 \/ new_features < 0
  IN [initial_edge_coverage |-> s1.edge_coverage,
      initial_feature_coverage |-> s1.feature_coverage,
      edge_coverage |-> s2.edge_coverage,
      feature_coverage |-> s2.feature_coverage,
      new_edges |-> IF inconsistent THEN 0 ELSE new_edges,
      new_features |-> IF inconsistent THEN 0 ELSE new_features]

\* mutant: TimeoutError is not caught
MergeNewUnitsCatches_MergeErrorOnly(exc) == exc \in {"MergeError"}

\* the exceptions the try block of _merge_new_units catches
MergeNewUnitsCatches(exc) == exc \in {"MergeError", "TimeoutError"}

\* engine_common.move_mergeable_units: the corpus after the move
move_mergeable_units(merge_corpus, corpus) == corpus \cup merge_corpus

\* _fuzz_output_contains_trusty_kernel_panic
_fuzz_output_contains_trusty_kernel_panic(r) == r.kernel_panic

\* mutant: a placeholder only for a kernel panic
NeedsEmptyTestcase_PanicOnly(r) ==
  _fuzz_output_contains_trusty_kernel_panic(r)

\* mutant: a run that timed out gets a placeholder too
NeedsEmptyTestcase_TimedOut(r) ==
  \/ (r.testcase_path = None /\ r.return_code \notin NONCRASH_RETURN_CODES)
  \/ _fuzz_output_contains_trusty_kernel_panic(r)
  \/ r.timed_out

\* does fuzz() call _create_empty_testcase_file
NeedsEmptyTestcase(r) ==
  \/ (r.testcase_path = None /\ r.return_code \notin NONCRASH_RETURN_CODES)
  \/ _fuzz_output_contains_trusty_kernel_panic(r)

\* ------------------------------------------------------------ fuzz() parts

\* mutant: the new-corpus directory is put last
CorpusDirectories_NewLast(options, new_corpus_dir) ==
  IF options.merge_back_new_testcases
    THEN Append(options.fuzz_corpus_dirs, new_corpus_dir)
    ELSE options.fuzz_corpus_dirs

\* mutant: the new-corpus directory is prepended whatever the options say
CorpusDirectories_AlwaysNew(options, new_corpus_dir) ==
  <<new_corpus_dir>> \o options.fuzz_corpus_dirs

\* corpus_directories of fuzz()
CorpusDirectories(options, new_corpus_dir) ==
  IF options.merge_back_new_testcases
    THEN <<new_corpus_dir>> \o options.fuzz_corpus_dirs
    ELSE options.fuzz_corpus_dirs

\* the Runner.fuzz invocation fuzz() makes
RunnerFuzzCall(corpus_directories, max_time) ==
  [corpus_directories |-> corpus_directories, fuzz_timeout |-> max_time]

\* The main corpus once Runner.fuzz has ended: the fuzz run writes the
\* units it finds to the first directory it is given.
CorpusAfterFuzzRun(corpus_directories, corpus_dir, corpus, new_units) ==
  IF corpus_directories[1] = corpus_dir
    THEN corpus \cup new_units ELSE corpus

ENGINE_ERROR_MESSAGE == "libFuzzer: engine encountered an error"

\* mutant: the two checks are independent ifs, both errors can be logged
LoggedErrors_Both(r, output) ==
  (IF output.dict_parsing_failed
     THEN <<"Dictionary parsing failed">> ELSE <<>>)
  \o (IF ~output.use_minijail /\ r.return_code = LIBFUZZER_ERROR_EXITCODE
        THEN <<ENGINE_ERROR_MESSAGE>> ELSE <<>>)

\* mutant: the engine error is logged under the sandboxing layer too
LoggedErrors_IgnoreMinijail(r, output) ==
  IF output.dict_parsing_failed
    THEN <<"Dictionary parsing failed">>
    ELSE IF r.return_code = LIBFUZZER_ERROR_EXITCODE
      THEN <<ENGINE_ERROR_MESSAGE>>
      ELSE <<>>

\* the errors fuzz() logs for the output of Runner.fuzz, in order
LoggedErrors(r, output) ==
  IF output.dict_parsing_failed
    THEN <<"Dictionary parsing failed">>
    ELSE IF ~output.use_minijail /\ r.return_code = LIBFUZZER_ERROR_EXITCODE
      THEN <<ENGINE_ERROR_MESSAGE>>
      ELSE <<>>

\* crash_testcase_file_path of fuzz() once the placeholder is decided
CrashTestcaseFilePath(r) ==
  IF NeedsEmptyTestcase(r) THEN "placeholder" ELSE r.testcase_path

\* parsed_stats of fuzz() before merge-back
InitialStats(r, max_time) ==
  [timeout_limit |-> None,
   expected_duration |-> max_time,
   actual_duration |-> r.time_executed,
   fuzzing_time_percent |-> (100 * r.time_executed) \div max_time]

\* mutant: the merge is never skipped
SkipMerge_Never(new) == FALSE

\* _merge_new_units: no merge is needed when the new-corpus directory holds
\* no file
SkipMerge(new) == Cardinality(new) = 0

\* mutant: merge_dirs is the caller's list itself, not a copy of it
FuzzCorpusDirsAfterMerge_Aliased(fuzz_corpus_dirs, corpus_dir) ==
  IF \E i \in DOMAIN fuzz_corpus_dirs : fuzz_corpus_dirs[i] = corpus_dir
    THEN fuzz_corpus_dirs
    ELSE Append(fuzz_corpus_dirs, corpus_dir)

\* options.fuzz_corpus_dirs once _merge_new_units has built merge_dirs:
\* merge_dirs is a copy (fuzz_corpus_dirs[:]), so the append of corpus_dir
\* does not reach the caller's list
FuzzCorpusDirsAfterMerge(fuzz_corpus_dirs, corpus_dir) == fuzz_corpus_dirs

\* mutant: corpus_dir is appended without looking for it in the list
MergeDirs_AlwaysAppend(fuzz_corpus_dirs, corpus_dir) ==
  Append(fuzz_corpus_dirs, corpus_dir)

\* merge_dirs of _merge_new_units
MergeDirs(fuzz_corpus_dirs, corpus_dir) ==
  IF \E i \in DOMAIN fuzz_corpus_dirs : fuzz_corpus_dirs[i] = corpus_dir
    THEN fuzz_corpus_dirs
    ELSE Append(fuzz_corpus_dirs, corpus_dir)

\* mutant: the parsed artifact and the placeholder are both reported
FuzzReturn_BothCrashes(f, stats) ==
  [op |-> "fuzz", kind |-> "returned", exc |-> None,
   crashes |-> (IF f.result.testcase_path # None
                  THEN <<f.result.testcase_path>> ELSE <<>>)
               \o (IF f.crash_testcase_file_path = "placeholder"
                     THEN <<"placeholder">> ELSE <<>>),
   stats |-> stats,
   time_executed |-> f.result.time_executed,
   timed_out |-> f.result.timed_out]

\* mutant: the timed-out flag of the run is not handed on
FuzzReturn_TimedOutDropped(f, stats) ==
  [op |-> "fuzz", kind |-> "returned", exc |-> None,
   crashes |-> IF f.crash_testcase_file_path # None
                 THEN <<f.crash_testcase_file_path>> ELSE <<>>,
   stats |-> stats,
   time_executed |-> f.result.time_executed,
   timed_out |-> FALSE]

\* the FuzzResult fuzz() returns
FuzzReturn(f, stats) ==
  [op |-> "fuzz", kind |-> "returned", exc |-> None,
   crashes |-> IF f.crash_testcase_file_path # None
                 THEN <<f.crash_testcase_file_path>> ELSE <<>>,
   stats |-> stats,
   time_executed |-> f.result.time_executed,
   timed_out |-> f.result.timed_out]

\* an exception leaving a top-level call
Raise(name, exc) ==
  [op |-> name, kind |-> "raised", exc |-> exc, crashes |-> <<>>,
   stats |-> NoStats, time_executed |-> 0, timed_out |-> FALSE]

\* _minimize_corpus_two_step ends with exception exc raised at place at
TwoStepRaise(exc, at) ==
  [kind |-> "raised", exc |-> exc, at |-> at, crashes |-> <<>>,
   stats |-> NoStats, time_executed |-> 0]

\* _minimize_corpus_two_step returns
TwoStepReturn(stats, time_executed, at) ==
  [kind |-> "returned", exc |-> None, at |-> at, crashes |-> <<>>,
   stats |-> stats, time_executed |-> time_executed]

\* mutant: the merge result's stats replace the mapping
MergedStats_Replace(stat_overrides, result_stats, new_units_added) ==
  ("new_units_added" :> new_units_added) @@ result_stats

\* stat_overrides of _merge_new_units after a merge that returned:
\* stat_overrides.update(result.stats), then new_units_added is stored
MergedStats(stat_overrides, result_stats, new_units_added) ==
  ("new_units_added" :> new_units_added) @@ result_stats @@ stat_overrides

\* mutant: a caught failure leaves merge statistics behind
FailedMergeStats_WithCoverage(stat_overrides) ==
  ("new_units_added" :> 0) @@ ("edge_coverage" :> 0) @@ stat_overrides

\* stat_overrides of _merge_new_units after a merge whose exception was
\* caught: new_units_added keeps the 0 it was set to before the try block
FailedMergeStats(stat_overrides) ==
  ("new_units_added" :> 0) @@ stat_overrides

\* mutant: the output directory keeps what step 1 wrote
OutputDirAfterStep1_Kept(out) == out

\* the output directory once _minimize_corpus_two_step has recreated it
\* after step 1
OutputDirAfterStep1(out) == {}

\* The rest of _merge_new_units and of fuzz() once the two-step merge has
\* ended with outcome; out is the content of the merge-output directory.
AfterTwoStep(outcome, out) ==
  /\ two_step_ret' = outcome
  /\ pc' = "done"
  /\ op' = "none"
  /\ IF outcome.kind = "returned"
       THEN LET corpus == move_mergeable_units(out, fs.corpus)
                new_units_added ==
                  Cardinality(corpus) - Cardinality(mg.old_corpus)
            IN /\ fs' = [fs EXCEPT !.corpus = corpus,
                                   !.out = out \cap fs.corpus]
               /\ ret' = FuzzReturn(fz,
                    MergedStats(fz.parsed_stats, outcome.stats,
                                new_units_added))
     ELSE IF MergeNewUnitsCatches(outcome.exc)
       THEN /\ fs' = [fs EXCEPT !.out = out]
            /\ ret' = FuzzReturn(fz, FailedMergeStats(fz.parsed_stats))
     ELSE /\ fs' = [fs EXCEPT !.out = out]
          /\ ret' = Raise("fuzz", outcome.exc)

\* --------------------------------------------------------------- prepare()

\* mutant: a value of the target's options replaces the strategy's
MergedExtraEnv_TargetWins(extra_env, strategy_extra_env) ==
  IF extra_env.is_none THEN strategy_extra_env
  ELSE extra_env.env @@ strategy_extra_env

\* strategy_info.extra_env once the target's extra environment is folded
\* in: a name is added only if strategy_info.extra_env does not hold it
MergedExtraEnv(extra_env, strategy_extra_env) ==
  IF extra_env.is_none THEN strategy_extra_env
  ELSE strategy_extra_env @@ extra_env.env

\* engine_common.unpack_seed_corpus_if_needed: the corpus afterwards
unpack_seed_corpus_if_needed(corpus, seed) == corpus \cup seed

\* does prepare() take the corpus-subset branch
UseCorpusSubset(do_subset, corpus_count, subset_size) ==
  do_subset /\ corpus_count > subset_size

\* the name prepare() records for the corpus-subset strategy
CorpusSubsetStrategyName(subset_size) ==
  IF subset_size = 0 THEN "corpus_subset_0" ELSE "corpus_subset_1"

\* mutant: the subset directory is added and the main corpus as well
AdditionalCorpusDirs_Both(dirs, subset, corpus_subset_dir, corpus_dir) ==
  IF subset
    THEN dirs \o <<corpus_subset_dir, corpus_dir>>
    ELSE Append(dirs, corpus_dir)

\* strategy_info.additional_corpus_dirs (dirs) after the corpus-subset
\* step: the subset directory or corpus_dir is appended
AdditionalCorpusDirs(dirs, subset, corpus_subset_dir, corpus_dir) ==
  IF subset
    THEN Append(dirs, corpus_subset_dir)
    ELSE Append(dirs, corpus_dir)

\* mutant: an explicit dictionary flag is kept without looking for its file
ResolveDict_NoExistenceCheck(arguments, dict_exists, default_dict_exists) ==
  IF DICT_FLAGNAME \notin DOMAIN arguments /\ default_dict_exists
    THEN (DICT_FLAGNAME :> DefaultDictPath) @@ arguments
    ELSE arguments

\* the arguments of prepare() after the two dictionary checks
ResolveDict(arguments, dict_exists, default_dict_exists) ==
  LET checked ==
        IF DICT_FLAGNAME \in DOMAIN arguments /\ ~dict_exists
          THEN [f \in DOMAIN arguments \ {DICT_FLAGNAME} |-> arguments[f]]
          ELSE arguments
  IN IF DICT_FLAGNAME \notin DOMAIN checked /\ default_dict_exists
       THEN (DICT_FLAGNAME :> DefaultDictPath) @@ checked
       ELSE checked

\* ------------------------------------------------- reproduction operations

\* libfuzzer.strip_fuzzing_arguments(arguments)
strip_fuzzing_arguments(arguments) ==
  [f \in DOMAIN arguments \ FuzzingOnlyFlags |-> arguments[f]]

\* mutant: the runs flag is forced on the caller's list as it is
ReproduceArguments_NoStrip(arguments) ==
  (RUNS_FLAGNAME :> RUNS_TO_REPRODUCE) @@ arguments

\* additional_args of reproduce(): the stripped list with the runs flag set
ReproduceArguments(arguments) ==
  (RUNS_FLAGNAME :> RUNS_TO_REPRODUCE) @@ strip_fuzzing_arguments(arguments)

\* mutant: minimize_testcase strips the list as reproduce does
MinimizeArguments_Stripped(arguments) == strip_fuzzing_arguments(arguments)

\* additional_args of minimize_testcase(): the caller's list
MinimizeArguments(arguments) == arguments

\* additional_args of cleanse(): the caller's list
CleanseArguments(arguments) == arguments

\* a Runner invocation of a reproduction operation
RunnerCall(capability, max_time, additional_args) ==
  [capability |-> capability, timeout |-> max_time,
   additional_args |-> additional_args]

\* mutant: a non-zero return code is an error too
ReproductionExc_NonZeroRaises(result) ==
  IF result.timed_out \/ result.return_code # 0
    THEN "TimeoutError" ELSE None

\* the exception a reproduction operation raises for a Runner result, None
\* if it returns
ReproductionExc(result) ==
  IF result.timed_out THEN "TimeoutError" ELSE None

\* engine.ReproduceResult(result.command, result.return_code,
\*                        result.time_executed, result.output)
ReproduceResult(result) ==
  [command |-> result.command, return_code |-> result.return_code,
   time_executed |-> result.time_executed, output |-> result.output]

\* The body the three operations share from the Runner invocation on: the
\* invocation, the timeout check, the result.
ReproductionOp(name, call, arguments, max_time, result) ==
  LET exc == ReproductionExc(result)
  IN /\ ncalls' = ncalls + 1
     /\ rp' = [op |-> name, arguments |-> arguments,
               max_time |-> max_time,
               runner_calls |-> <<call>>,
               runner_result |-> result,
               result |-> IF exc # None THEN NoReproduceResult
                          ELSE ReproduceResult(result)]
     /\ ret' = IF exc # None
                 THEN Raise(name, exc)
                 ELSE [op |-> name, kind |-> "returned", exc |-> None,
                       crashes |-> <<>>, stats |-> NoStats,
                       time_executed |-> result.time_executed,
                       timed_out |-> FALSE]
     /\ fs' = [fs EXCEPT !.new = {}, !.out = {}, !.placeholders = 0]
     /\ merge_calls' = <<>>
     /\ fz' = NoFz
     /\ mg' = NoMg
     /\ pz' = NoPz
     /\ two_step_ret' = NoTwoStepRet
     /\ pc' = "done"
     /\ UNCHANGED <<op, merge_control_file>>

\* ----------------------------------------------------------------- actions

\* fuzz(): Runner.fuzz, the classification of its result, the stats, and
\* _merge_new_units up to its first Runner.merge invocation, for options
\* of options_set and outputs of output_classes
FuzzPhase(options_set, output_classes) ==
  /\ pc = "idle"
  /\ ncalls < MaxOps
  /\ \E target \in Targets,
        options \in options_set, max_time \in {MaxTime},
        merge_timeout \in {get_merge_timeout}, r \in RunnerFuzzResults,
        output \in output_classes :
       LET merge_back == options.merge_back_new_testcases
           new_corpus_dir == create_temp_fuzzing_dir("new")
           corpus_directories == CorpusDirectories(options, new_corpus_dir)
           multistep == _is_multistep_merge_supported(target)
           new == IF merge_back THEN r.new_units ELSE {}
           corpus == CorpusAfterFuzzRun(corpus_directories,
                       options.corpus_dir, fs.corpus, r.new_units)
           placeholders == IF NeedsEmptyTestcase(r) THEN 1 ELSE 0
           f == [merge_back |-> merge_back,
                 corpus_dir |-> options.corpus_dir,
                 fuzz_corpus_dirs |-> options.fuzz_corpus_dirs,
                 corpus_directories |-> corpus_directories,
                 max_time |-> max_time,
                 result |-> r,
                 crash_testcase_file_path |-> CrashTestcaseFilePath(r),
                 parsed_stats |-> InitialStats(r, max_time),
                 target |-> target,
                 runner_fuzz_calls |->
                   <<RunnerFuzzCall(corpus_directories, max_time)>>,
                 corpus_before |-> fs.corpus,
                 corpus_after_run |-> corpus,
                 options_before |-> options,
                 options_after |->
                   IF merge_back /\ ~SkipMerge(new)
                     THEN [options EXCEPT !.fuzz_corpus_dirs =
                             FuzzCorpusDirsAfterMerge(
                               options.fuzz_corpus_dirs,
                               options.corpus_dir)]
                     ELSE options,
                 output |-> output,
                 logged |-> LoggedErrors(r, output)]
           merge_dirs == MergeDirs(options.fuzz_corpus_dirs,
                                   options.corpus_dir)
           m == [existing_corpus_dirs |-> merge_dirs,
                 new_corpus_dir |-> new_corpus_dir,
                 output_corpus_dir |->
                   create_temp_fuzzing_dir("merge-corpus"),
                 max_time |-> merge_timeout,
                 initial_edge_coverage |-> 0,
                 initial_feature_coverage |-> 0,
                 time_executed_1 |-> 0,
                 old_corpus |-> corpus]
       IN /\ ncalls' = ncalls + 1
          /\ fz' = f
          /\ UNCHANGED <<rp, pz>>
          /\ merge_calls' = <<>>
          /\ two_step_ret' = NoTwoStepRet
          /\ IF ~merge_back
               THEN \* no merge-back
                    /\ fs' = [corpus |-> corpus, new |-> {}, out |-> {},
                              placeholders |-> placeholders]
                    /\ created' = {}
                    /\ ret' = FuzzReturn(f, f.parsed_stats)
                    /\ mg' = NoMg
                    /\ pc' = "done" /\ op' = "none"
                    /\ UNCHANGED merge_control_file
             ELSE IF SkipMerge(new)
               THEN \* _merge_new_units skips the merge
                    /\ fs' = [corpus |-> corpus, new |-> new, out |-> {},
                              placeholders |-> placeholders]
                    /\ created' = {"new"}
                    /\ ret' = FuzzReturn(f,
                         ("new_units_added" :> 0) @@ f.parsed_stats)
                    /\ mg' = NoMg
                    /\ pc' = "done" /\ op' = "none"
                    /\ UNCHANGED merge_control_file
             ELSE IF ~multistep
               THEN \* single-step fallback of _minimize_corpus_two_step
                    /\ fs' = [corpus |-> corpus, new |-> new, out |-> {},
                              placeholders |-> placeholders]
                    /\ created' = {"new", "merge-corpus"}
                    /\ ret' = NoRet
                    /\ mg' = m
                    /\ pc' = "single" /\ op' = "fuzz"
                    /\ UNCHANGED merge_control_file
             ELSE \* two-step merge: the merge control file is assigned
                  /\ fs' = [corpus |-> corpus, new |-> new, out |-> {},
                            placeholders |-> placeholders]
                  /\ created' = {"new", "merge-corpus", "mcf_tmp_dir"}
                  /\ ret' = NoRet
                  /\ mg' = m
                  /\ pc' = "step1" /\ op' = "fuzz"
                  /\ merge_control_file' = McfPath

\* fuzz() on a plain output
Fuzz == FuzzPhase(FuzzOptionsSet, {PlainOutput})

\* fuzz() on every class of output
FuzzLogged == FuzzPhase(LogOptionsSet, FuzzOutputClasses)

\* the single-step fallback: minimize_corpus over existing + [new]
MergeSingle ==
  /\ pc = "single"
  /\ \E r \in RunnerMergeOutcomes :
       LET call == MergeCall("single",
                     Append(mg.existing_corpus_dirs, mg.new_corpus_dir),
                     mg.output_corpus_dir, mg.max_time, r)
           exc == MinimizeCorpusExc(r)
           out == fs.out \cup r.out_units
       IN /\ merge_calls' = Append(merge_calls, call)
          /\ created' = created \cup {"merge-wd"}
          /\ IF exc # None
               THEN AfterTwoStep(TwoStepRaise(exc, "single"), out)
               ELSE AfterTwoStep(
                      TwoStepReturn(parse_stats_from_merge_log(r),
                                    r.time_executed, "single"), out)
          /\ UNCHANGED <<merge_control_file, fz, mg, rp, pz, ncalls>>

\* step 1: minimize_corpus over the existing corpus, the output directory
\* recreated, the budget check
MergeStep1 ==
  /\ pc = "step1"
  /\ \E r \in RunnerMergeOutcomes :
       LET call == MergeCall("step1", mg.existing_corpus_dirs,
                             mg.output_corpus_dir, mg.max_time, r)
           exc == MinimizeCorpusExc(r)
           s1 == parse_stats_from_merge_log(r)
           remaining == RemainingTime(mg.max_time, r)
       IN /\ merge_calls' = Append(merge_calls, call)
          /\ created' = created \cup {"merge-wd"}
          /\ IF exc # None
               THEN /\ AfterTwoStep(TwoStepRaise(exc, "step1"),
                                    fs.out \cup r.out_units)
                    /\ UNCHANGED mg
             ELSE IF BudgetExhausted(remaining)
               THEN /\ AfterTwoStep(TwoStepRaise("TimeoutError", "budget"),
                         OutputDirAfterStep1(fs.out \cup r.out_units))
                    /\ UNCHANGED mg
             ELSE /\ mg' = [mg EXCEPT
                              !.initial_edge_coverage = s1.edge_coverage,
                              !.initial_feature_coverage =
                                 s1.feature_coverage,
                              !.time_executed_1 = r.time_executed,
                              !.max_time = remaining]
                  /\ fs' = [fs EXCEPT !.out =
                              OutputDirAfterStep1(fs.out \cup r.out_units)]
                  /\ pc' = "step2"
                  /\ UNCHANGED <<op, two_step_ret, ret>>
          /\ UNCHANGED <<merge_control_file, fz, rp, pz, ncalls>>

\* step 2: minimize_corpus over existing + [new], the stats diffed and
\* clamped, the merge control file cleared
MergeStep2 ==
  /\ pc = "step2"
  /\ \E r \in RunnerMergeOutcomes :
       LET call == MergeCall("step2",
                     Append(mg.existing_corpus_dirs, mg.new_corpus_dir),
                     mg.output_corpus_dir, mg.max_time, r)
           exc == MinimizeCorpusExc(r)
           s1 == [edge_coverage |-> mg.initial_edge_coverage,
                  feature_coverage |-> mg.initial_feature_coverage]
           s2 == parse_stats_from_merge_log(r)
           out == fs.out \cup r.out_units
       IN /\ merge_calls' = Append(merge_calls, call)
          /\ created' = created \cup {"merge-wd"}
          /\ IF exc # None
               THEN /\ AfterTwoStep(TwoStepRaise(exc, "step2"), out)
                    /\ UNCHANGED merge_control_file
               ELSE /\ AfterTwoStep(
                         TwoStepReturn(TwoStepStats(s1, s2),
                           mg.time_executed_1 + r.time_executed, "step2"),
                         out)
                    /\ merge_control_file' = None
          /\ UNCHANGED <<fz, mg, rp, pz, ncalls>>

\* a direct minimize_corpus call
MinimizeCorpus ==
  /\ pc = "idle"
  /\ ncalls < MaxOps
  /\ \E max_time \in {MaxTime}, r \in RunnerMergeOutcomes :
       LET call == MergeCall("direct", <<"corpus">>, "out", max_time, r)
           exc == MinimizeCorpusExc(r)
       IN /\ ncalls' = ncalls + 1
          /\ merge_calls' = <<call>>
          /\ created' = {"merge-wd"}
          /\ fs' = [fs EXCEPT !.out = r.out_units, !.new = {},
                              !.placeholders = 0]
          /\ ret' = IF exc # None
                      THEN Raise("minimize_corpus", exc)
                      ELSE [op |-> "minimize_corpus", kind |-> "returned",
                            exc |-> None, crashes |-> <<>>,
                            stats |-> parse_stats_from_merge_log(r),
                            time_executed |-> r.time_executed,
                            timed_out |-> FALSE]
          /\ fz' = NoFz
          /\ mg' = NoMg
          /\ two_step_ret' = NoTwoStepRet
          /\ pc' = "done"
          /\ UNCHANGED <<op, merge_control_file, rp, pz>>

\* prepare(): the target's arguments and environment, the strategies picked,
\* the seed corpus, the corpus subset, the dictionary, the LibFuzzerOptions
Prepare ==
  /\ pc = "idle"
  /\ ncalls < MaxOps
  /\ \E arguments \in TargetArguments, extra_env \in TargetExtraEnvs,
        strategy_arguments \in StrategyArguments,
        strategy_extra_env \in StrategyExtraEnvs,
        fuzzing_strategies \in StrategyLists,
        strategy_corpus_dirs \in StrategyCorpusDirs,
        seed \in SUBSET Units,
        do_subset \in BOOLEAN, subset_size \in SubsetSizes,
        dict_exists \in BOOLEAN, default_dict_exists \in BOOLEAN :
       LET corpus == unpack_seed_corpus_if_needed(fs.corpus, seed)
           corpus_count == Cardinality(corpus)
           subset == UseCorpusSubset(do_subset, corpus_count, subset_size)
       IN \E subset_units \in SUBSET corpus :
            /\ Cardinality(subset_units) = IF subset THEN subset_size ELSE 0
            /\ ncalls' = ncalls + 1
            /\ fs' = [corpus |-> corpus, new |-> {}, out |-> {},
                      placeholders |-> 0]
            /\ created' = IF subset THEN {"subset"} ELSE {}
            /\ pz' = [called |-> TRUE,
                      extra_env |-> extra_env,
                      strategy_extra_env |-> strategy_extra_env,
                      arguments |-> arguments,
                      dict_exists |-> dict_exists,
                      default_dict_exists |-> default_dict_exists,
                      do_subset |-> do_subset,
                      subset_size |-> subset_size,
                      corpus_count |-> corpus_count,
                      strategy_corpus_dirs |-> strategy_corpus_dirs,
                      subset_units |-> subset_units,
                      use_extra_sanitizers |->
                        USE_EXTRA_SANITIZERS_STRATEGY \in fuzzing_strategies,
                      options |->
                        [corpus_dir |-> "corpus",
                         arguments |->
                           ResolveDict(arguments @@ strategy_arguments,
                                       dict_exists, default_dict_exists),
                         strategies |->
                           fuzzing_strategies \cup
                             (IF subset
                                THEN {CorpusSubsetStrategyName(subset_size)}
                                ELSE {}),
                         fuzz_corpus_dirs |->
                           AdditionalCorpusDirs(strategy_corpus_dirs,
                             subset, create_temp_fuzzing_dir("subset"),
                             "corpus"),
                         extra_env |->
                           MergedExtraEnv(extra_env, strategy_extra_env),
                         merge_back_new_testcases |-> TRUE]]
            /\ ret' = [op |-> "prepare", kind |-> "returned", exc |-> None,
                       crashes |-> <<>>, stats |-> NoStats,
                       time_executed |-> 0, timed_out |-> FALSE]
            /\ merge_calls' = <<>>
            /\ fz' = NoFz
            /\ mg' = NoMg
            /\ rp' = NoRp
            /\ two_step_ret' = NoTwoStepRet
            /\ pc' = "done"
            /\ UNCHANGED <<op, merge_control_file>>

\* reproduce()
Reproduce ==
  /\ pc = "idle"
  /\ ncalls < MaxOps
  /\ \E arguments \in ArgumentLists, max_time \in 1..MaxTime,
        result \in RunnerRunResults :
       /\ ReproductionOp("reproduce",
            RunnerCall("run_single_testcase", max_time,
                       ReproduceArguments(arguments)),
            arguments, max_time, result)
       /\ created' = {}

\* minimize_testcase()
MinimizeTestcase ==
  /\ pc = "idle"
  /\ ncalls < MaxOps
  /\ \E arguments \in ArgumentLists, max_time \in 1..MaxTime,
        result \in RunnerRunResults :
       /\ ReproductionOp("minimize_testcase",
            RunnerCall("minimize_crash", max_time,
                       MinimizeArguments(arguments)),
            arguments, max_time, result)
       /\ created' = {"minimize-workdir"}

\* cleanse()
Cleanse ==
  /\ pc = "idle"
  /\ ncalls < MaxOps
  /\ \E arguments \in ArgumentLists, max_time \in 1..MaxTime,
        result \in RunnerRunResults :
       /\ ReproductionOp("cleanse",
            RunnerCall("cleanse_crash", max_time,
                       CleanseArguments(arguments)),
            arguments, max_time, result)
       /\ created' = {"cleanse-workdir"}

\* The caller takes the result of the finished call; the engine keeps
\* _merge_control_file and the corpus, and the temporary directories are
\* recreated by the next call that uses them.
NextCall ==
  /\ pc = "done"
  /\ pc' = "idle"
  /\ fs' = [corpus |-> fs.corpus, new |-> {}, out |-> {}, placeholders |-> 0]
  /\ fz' = NoFz
  /\ mg' = NoMg
  /\ merge_calls' = <<>>
  /\ created' = {}
  /\ two_step_ret' = NoTwoStepRet
  /\ ret' = NoRet
  /\ rp' = NoRp
  /\ pz' = NoPz
  /\ UNCHANGED <<op, merge_control_file, ncalls>>

\* a step of the engine
EngineOnly == UNCHANGED <<daemon_vars, store_vars, flush_vars, flash_vars>>

Next ==
  \/ Fuzz /\ EngineOnly
  \/ MergeSingle /\ EngineOnly
  \/ MergeStep1 /\ EngineOnly
  \/ MergeStep2 /\ EngineOnly
  \/ MinimizeCorpus /\ EngineOnly
  \/ Prepare /\ EngineOnly
  \/ Reproduce /\ EngineOnly
  \/ MinimizeTestcase /\ EngineOnly
  \/ Cleanse /\ EngineOnly
  \/ NextCall /\ EngineOnly

Spec == Init /\ [][Next]_vars

\* fuzz phases over every class of output, with their merges
NextLog ==
  \/ FuzzLogged /\ EngineOnly
  \/ MergeSingle /\ EngineOnly
  \/ MergeStep1 /\ EngineOnly
  \/ MergeStep2 /\ EngineOnly
  \/ NextCall /\ EngineOnly

SpecLog == Init /\ [][NextLog]_vars

\* ----------------------------------------------- monitor.py: _MetricsStore

\* the items of a label mapping with item x put at its place in sorted order
RECURSIVE InsertSorted(_, _)
InsertSorted(x, s) ==
  IF s = <<>> THEN <<x>>
  ELSE IF LabelRank[x[1]] <= LabelRank[Head(s)[1]] THEN <<x>> \o s
  ELSE <<Head(s)>> \o InsertSorted(x, Tail(s))

\* tuple(sorted(labels.items()))
RECURSIVE SortedItems(_)
SortedItems(labels) ==
  IF labels = <<>> THEN <<>>
  ELSE InsertSorted(Head(labels), SortedItems(Tail(labels)))

\* mutant: the items are taken in the order of the mapping
_get_key_Unsorted(metric_name, labels) == <<metric_name, labels>>

\* _MetricsStore._get_key; normalized_labels None is written <<>>
_get_key(metric_name, labels) == <<metric_name, SortedItems(labels)>>

\* mutant: no lock, every thread enters
CanAcquire_NoLock(owner, t) == TRUE

\* `with self._lock`, an RLock: free, or held by the thread itself
CanAcquire(owner, t) == owner = None \/ owner = t

\* mutant: the start time is taken anew by every update
StartTime_Always(key, s, time) == time

\* start_time of put and increment: the stored one, or the time of the call
StartTime(key, s, time) ==
  IF key \in DOMAIN s THEN s[key].start_time ELSE time

\* value of increment
IncrementedValue(key, s, delta) ==
  IF key \in DOMAIN s THEN s[key].value + delta ELSE default_value + delta

\* what hist holds for a key after an update wrote value v with start time
\* st: the first start time, the deltas of the increments added up, the
\* puts counted, the (start_time, value) pairs written
HistAfter(h, key, call, arg, st, v) ==
  LET old == IF key \in DOMAIN h THEN h[key]
             ELSE [first |-> st, sum |-> 0, puts |-> 0, pairs |-> {}]
      new == [first |-> old.first,
              sum |-> IF call = "increment" THEN old.sum + arg ELSE old.sum,
              puts |-> IF call = "put" THEN old.puts + 1 ELSE old.puts,
              pairs |-> old.pairs \cup {<<st, v>>}]
  IN [k \in DOMAIN h \cup {key} |-> IF k = key THEN new ELSE h[k]]

\* a thread calls put, increment or get and enters the lock
StoreCall ==
  /\ nupdates < MaxUpdates
  /\ \E t \in Threads, call \in {"put", "increment", "get"},
        metric \in MetricNames, labels \in LabelInputs, arg \in Deltas :
       /\ locals[t].pc = "idle"
       /\ CanAcquire(lock, t)
       /\ lock' = t
       /\ locals' = [locals EXCEPT ![t] =
            [NoLocals EXCEPT !.pc = "locked", !.call = call,
                             !.metric = metric, !.labels = labels,
                             !.arg = IF call = "get" THEN 0 ELSE arg]]
  /\ nupdates' = nupdates + 1
  /\ UNCHANGED <<store, now, hist>>
  /\ UNCHANGED <<engine_vars, daemon_vars, flush_vars, flash_vars>>

\* inside the lock: the key, and what is read from the store; get returns
\* the stored value (KeyError without one) and leaves the lock
StoreRead ==
  /\ \E t \in Threads :
       LET l == locals[t]
           key == _get_key(l.metric, l.labels)
           fresh == key \notin DOMAIN store
       IN /\ l.pc = "locked"
          /\ IF l.call = "get"
               THEN /\ locals' = [locals EXCEPT ![t] =
                         [NoLocals EXCEPT
                            !.key = key,
                            !.observed =
                              IF fresh THEN <<"KeyError">>
                              ELSE <<store[key].start_time,
                                     store[key].value>>]]
                    /\ lock' = IF lock = t THEN None ELSE lock
                    /\ UNCHANGED now
               ELSE /\ locals' = [locals EXCEPT ![t] =
                         [l EXCEPT
                            !.pc = "computed",
                            !.key = key,
                            !.start_time = StartTime(key, store, now),
                            !.value =
                              IF l.call = "put" THEN l.arg
                              ELSE IncrementedValue(key, store, l.arg)]]
                    /\ now' = IF fresh THEN now + 1 ELSE now
                    /\ UNCHANGED lock
  /\ UNCHANGED <<store, nupdates, hist>>
  /\ UNCHANGED <<engine_vars, daemon_vars, flush_vars, flash_vars>>

\* self._store[key] = _StoreValue(...), and the lock is left
StoreWrite ==
  /\ \E t \in Threads :
       LET l == locals[t]
           v == [metric |-> l.metric, labels |-> l.labels,
                 start_time |-> l.start_time, value |-> l.value]
       IN /\ l.pc = "computed"
          /\ store' = [k \in DOMAIN store \cup {l.key} |->
                         IF k = l.key THEN v ELSE store[k]]
          /\ hist' = HistAfter(hist, l.key, l.call, l.arg,
                               l.start_time, l.value)
          /\ locals' = [locals EXCEPT ![t] = NoLocals]
          /\ lock' = IF lock = t THEN None ELSE lock
  /\ UNCHANGED <<now, nupdates>>
  /\ UNCHANGED <<engine_vars, daemon_vars, flush_vars, flash_vars>>

NextStore ==
  \/ StoreCall
  \/ StoreRead
  \/ StoreWrite

SpecStore == Init /\ [][NextStore]_vars

\* ---------------------------------------------- monitor.py: _flush_metrics

\* the series made of a stored value: a gauge starts at end_time
TimeSeriesOf(v, end_time) ==
  [id |-> v.id,
   start_time |-> IF v.metric_kind = "GAUGE" THEN end_time ELSE v.start_time]

\* _time_series_sort_key
_time_series_sort_key(ts) == ts.start_time

\* time_series.sort(key=_time_series_sort_key) of the series whose key is
\* in keys: a stable sort, the series of the least key first
RECURSIVE SortedByKey(_, _)
SortedByKey(series, keys) ==
  IF keys = {} THEN <<>>
  ELSE LET least == CHOOSE k \in keys : \A o \in keys : k <= o
           IsLeast(ts) == _time_series_sort_key(ts) = least
       IN SelectSeq(series, IsLeast) \o SortedByKey(series, keys \ {least})

\* time_series.sort(key=_time_series_sort_key)
Sorted(series) ==
  SortedByKey(series,
              {_time_series_sort_key(series[i]) : i \in DOMAIN series})

\* mutant: the list is sent once it is longer than the limit
BatchFull_Late(series) == Len(series) > MAX_TIME_SERIES_PER_CALL

\* len(time_series) == MAX_TIME_SERIES_PER_CALL
BatchFull(series) == Len(series) = MAX_TIME_SERIES_PER_CALL

\* mutant: the rest is sent even when it is empty
SendsRest_Always(series) == TRUE

\* `if time_series:` after the loop
SendsRest(series) == series # <<>>

\* mutant: the list is not emptied after a call
AfterSend_Kept(series) == series

\* time_series = [] after a call
AfterSend(series) == <<>>

\* _flush_metrics starts: iter_values() holds the lock of the store, so
\* the values of this run are those of the store at this moment
FlushStart ==
  /\ fpc = "idle"
  /\ \E n \in StoreSizes : fvalues' = [i \in 1..n |-> StoredValue(i)]
  /\ fpos' = 0
  /\ time_series' = <<>>
  /\ sent' = <<>>
  /\ fpc' = "loop"
  /\ UNCHANGED <<engine_vars, daemon_vars, store_vars, flash_vars>>

\* one turn of the for loop: the series of the next value is appended, and
\* a full list is sorted, sent and emptied
FlushStep ==
  /\ fpc = "loop"
  /\ fpos < Len(fvalues)
  /\ LET series == Append(time_series,
                          TimeSeriesOf(fvalues[fpos + 1], EndTime))
     IN IF BatchFull(series)
          THEN /\ sent' = Append(sent, Sorted(series))
               /\ time_series' = AfterSend(series)
          ELSE /\ time_series' = series
               /\ UNCHANGED sent
  /\ fpos' = fpos + 1
  /\ UNCHANGED <<fpc, fvalues>>
  /\ UNCHANGED <<engine_vars, daemon_vars, store_vars, flash_vars>>

\* the loop has ended: what is left is sorted and sent
FlushFinish ==
  /\ fpc = "loop"
  /\ fpos = Len(fvalues)
  /\ IF SendsRest(time_series)
       THEN /\ sent' = Append(sent, Sorted(time_series))
            /\ time_series' = time_series
       ELSE UNCHANGED <<sent, time_series>>
  /\ fpc' = "done"
  /\ UNCHANGED <<fvalues, fpos>>
  /\ UNCHANGED <<engine_vars, daemon_vars, store_vars, flash_vars>>

\* an exception in the loop body reaches the except clause: it is logged
\* and the run ends
FlushError ==
  /\ fpc = "loop"
  /\ fpos < Len(fvalues)
  /\ fpc' = "failed"
  /\ UNCHANGED <<fvalues, fpos, time_series, sent>>
  /\ UNCHANGED <<engine_vars, daemon_vars, store_vars, flash_vars>>

\* the run is over; the next one starts from nothing
FlushReturn ==
  /\ fpc \in {"done", "failed"}
  /\ fpc' = "idle"
  /\ fvalues' = <<>>
  /\ fpos' = 0
  /\ time_series' = <<>>
  /\ sent' = <<>>
  /\ UNCHANGED <<engine_vars, daemon_vars, store_vars, flash_vars>>

NextFlush ==
  \/ FlushStart
  \/ FlushStep
  \/ FlushFinish
  \/ FlushError
  \/ FlushReturn

SpecFlush == Init /\ [][NextFlush]_vars

\* ------------------------------ flash.py: flash_to_latest_build_if_needed

\* mutant: acquire_lock hands the lock out whoever holds it
LockFree_Always(holder) == TRUE

\* locks.acquire_lock can succeed: nobody holds the lock
LockFree(holder) == holder = None

\* mutant: the lock is released only after a flash that succeeded
LockAfterLoop_OnSuccess(holder, ok) == IF ok THEN None ELSE holder

\* locks.release_lock after the retry loop, whatever the loop's outcome
LockAfterLoop(holder, ok) == None

\* mutant: the loop goes on until the device is back
LoopEnds_OnSuccess(ok, n) == ok

\* the retry loop ends: break on 'device', or FLASH_RETRIES turns done
LoopEnds(ok, n) == ok \/ n >= FLASH_RETRIES

\* mutant: a caller without the lock flashes all the same
AfterAcquire_Ignored(ok) == "attempt"

\* after acquire_lock: the retry loop, or the return of the caller
AfterAcquire(ok) == IF ok THEN "attempt" ELSE "returned"

\* the call up to the branch at the device kind; the images are downloaded
FlashBegin ==
  /\ \E c \in Callers, kind \in FlashKinds :
       /\ cpc[c] = "start"
       /\ cpc' = [cpc EXCEPT ![c] =
                    CASE kind = "skip" -> "returned"
                      [] kind = "cuttlefish" -> "check"
                      [] OTHER -> "acquire"]
  /\ UNCHANGED <<flash_lock, attempts, device_ok, acquired, lock_failed,
                 fastboot_issued, key_writers>>
  /\ UNCHANGED <<engine_vars, daemon_vars, store_vars, flush_vars>>

\* locks.acquire_lock: it can give the lock only when it is free, and it
\* may fail then too; without the lock the caller returns
FlashAcquire ==
  /\ \E c \in Callers, granted \in BOOLEAN :
       LET ok == granted /\ LockFree(flash_lock)
       IN /\ cpc[c] = "acquire"
          /\ cpc' = [cpc EXCEPT ![c] = AfterAcquire(ok)]
          /\ flash_lock' = IF ok THEN c ELSE flash_lock
          /\ acquired' = IF ok THEN acquired \cup {c} ELSE acquired
          /\ lock_failed' = IF ok THEN lock_failed
                                  ELSE lock_failed \cup {c}
  /\ UNCHANGED <<attempts, device_ok, fastboot_issued, key_writers>>
  /\ UNCHANGED <<engine_vars, daemon_vars, store_vars, flush_vars>>

\* a turn of the retry loop starts: reboot into the bootloader and the
\* first fastboot command
FlashAttempt ==
  /\ \E c \in Callers :
       /\ cpc[c] = "attempt"
       /\ cpc' = [cpc EXCEPT ![c] = "flashing"]
       /\ attempts' = [attempts EXCEPT ![c] = attempts[c] + 1]
       /\ fastboot_issued' = fastboot_issued \cup {c}
  /\ UNCHANGED <<flash_lock, device_ok, acquired, lock_failed, key_writers>>
  /\ UNCHANGED <<engine_vars, daemon_vars, store_vars, flush_vars>>

\* the turn ends: the partitions are flashed, the device rebooted and its
\* state read; the loop ends or goes on
FlashAttemptEnd ==
  /\ \E c \in Callers, ok \in BOOLEAN :
       /\ cpc[c] = "flashing"
       /\ device_ok' = [device_ok EXCEPT ![c] = ok]
       /\ cpc' = [cpc EXCEPT ![c] =
                    IF LoopEnds(ok, attempts[c]) THEN "release"
                    ELSE "attempt"]
  /\ UNCHANGED <<flash_lock, attempts, acquired, lock_failed,
                 fastboot_issued, key_writers>>
  /\ UNCHANGED <<engine_vars, daemon_vars, store_vars, flush_vars>>

\* locks.release_lock after the loop
FlashRelease ==
  /\ \E c \in Callers :
       /\ cpc[c] = "release"
       /\ flash_lock' = LockAfterLoop(flash_lock, device_ok[c])
       /\ cpc' = [cpc EXCEPT ![c] = "check"]
  /\ UNCHANGED <<attempts, device_ok, acquired, lock_failed,
                 fastboot_issued, key_writers>>
  /\ UNCHANGED <<engine_vars, daemon_vars, store_vars, flush_vars>>

\* the device check after the branch: bad_state_reached without a device,
\* else the persistent keys are reset and the last-flash keys written
FlashFinish ==
  /\ \E c \in Callers, state_ok \in BOOLEAN :
       /\ cpc[c] = "check"
       /\ cpc' = [cpc EXCEPT ![c] = IF state_ok THEN "returned"
                                     ELSE "exited"]
       /\ key_writers' = IF state_ok THEN key_writers \cup {c}
                                     ELSE key_writers
  /\ UNCHANGED <<flash_lock, attempts, device_ok, acquired, lock_failed,
                 fastboot_issued>>
  /\ UNCHANGED <<engine_vars, daemon_vars, store_vars, flush_vars>>

NextFlash ==
  \/ FlashBegin
  \/ FlashAcquire
  \/ FlashAttempt
  \/ FlashAttemptEnd
  \/ FlashRelease
  \/ FlashFinish

SpecFlash == Init /\ [][NextFlash]_vars

\* ------------------------------------------- monitor.py: _MonitoringDaemon

\* mutant: _flush_loop breaks before the flush when the event is set
AfterWait_BreakFirst(stop) == IF stop THEN "exited" ELSE "flush"

\* _flush_loop after Event.wait has returned: the flush function is called
\* whatever wait returned
AfterWait(stop) == "flush"

\* mutant: stop() sets the event and does not wait for the thread
JoinReturns_NoWait(t) == TRUE

\* Thread.join returns once the thread has exited
JoinReturns(t) == t = "exited"

\* initialize(): with monitoring enabled the daemon is made and its thread
\* started, otherwise _monitoring_daemon stays None
Initialize ==
  /\ caller = "idle"
  /\ \E enabled \in BOOLEAN :
       /\ daemon_made' = enabled
       /\ thread' = IF enabled THEN "wait" ELSE thread
  /\ caller' = "body"
  /\ UNCHANGED <<stop_event, should_stop, ticks, handler, stops,
                 flushes_after_set>>
  /\ UNCHANGED <<engine_vars, store_vars, flush_vars, flash_vars>>

\* the finally of wrap_with_monitoring calls stop(), up to the join:
\* nothing without a daemon, else the stop event is set
Stop ==
  /\ caller = "body"
  /\ handler # "join"
  /\ stops' = stops + 1
  /\ IF daemon_made
       THEN /\ stop_event' = TRUE
            /\ caller' = "join"
       ELSE /\ caller' = "returned"
            /\ UNCHANGED stop_event
  /\ UNCHANGED <<daemon_made, thread, should_stop, ticks, handler,
                 flushes_after_set>>
  /\ UNCHANGED <<engine_vars, store_vars, flush_vars, flash_vars>>

\* the join of that stop() returns, and stop() with it
Join ==
  /\ caller = "join"
  /\ handler # "join"
  /\ JoinReturns(thread)
  /\ caller' = "returned"
  /\ UNCHANGED <<daemon_made, thread, stop_event, should_stop, ticks,
                 handler, stops, flushes_after_set>>
  /\ UNCHANGED <<engine_vars, store_vars, flush_vars, flash_vars>>

\* SIGTERM: handle_sigterm interrupts the caller, wherever it is once the
\* handler is installed, and calls stop(), up to the join
Sigterm ==
  /\ caller \in {"body", "join", "returned"}
  /\ handler # "join"
  /\ stops < MaxStops
  /\ stops' = stops + 1
  /\ IF daemon_made
       THEN /\ stop_event' = TRUE
            /\ handler' = "join"
       ELSE /\ handler' = "done"
            /\ UNCHANGED stop_event
  /\ UNCHANGED <<caller, daemon_made, thread, should_stop, ticks,
                 flushes_after_set>>
  /\ UNCHANGED <<engine_vars, store_vars, flush_vars, flash_vars>>

\* the join of the handler's stop() returns; the caller goes on
SigtermJoin ==
  /\ handler = "join"
  /\ JoinReturns(thread)
  /\ handler' = "done"
  /\ UNCHANGED <<caller, daemon_made, thread, stop_event, should_stop,
                 ticks, stops, flushes_after_set>>
  /\ UNCHANGED <<engine_vars, store_vars, flush_vars, flash_vars>>

\* Event.wait(timeout) returns in the flushing thread: True when the event
\* is set, False when the timeout has passed
DaemonWait ==
  /\ thread = "wait"
  /\ stop_event \/ ticks < MaxTicks
  /\ should_stop' = stop_event
  /\ ticks' = IF stop_event THEN ticks ELSE ticks + 1
  /\ thread' = "woke"
  /\ UNCHANGED <<caller, daemon_made, stop_event, handler, stops, flushes_after_set>>
  /\ UNCHANGED <<engine_vars, store_vars, flush_vars, flash_vars>>

\* the flushing thread goes on after the wait: it calls the flush function
FlushBegin ==
  /\ thread = "woke"
  /\ thread' = AfterWait(should_stop)
  /\ flushes_after_set' =
       IF stop_event /\ thread' = "flush"
         THEN flushes_after_set + 1 ELSE flushes_after_set
  /\ UNCHANGED <<caller, daemon_made, stop_event, should_stop, ticks, handler, stops>>
  /\ UNCHANGED <<engine_vars, store_vars, flush_vars, flash_vars>>

\* the flush function returns; the loop breaks if should_stop
FlushEnd ==
  /\ thread = "flush"
  /\ thread' = IF should_stop THEN "exited" ELSE "wait"
  /\ UNCHANGED <<caller, daemon_made, stop_event, should_stop, ticks,
                 handler, stops, flushes_after_set>>
  /\ UNCHANGED <<engine_vars, store_vars, flush_vars, flash_vars>>

NextDaemon ==
  \/ Initialize
  \/ Stop
  \/ Join
  \/ Sigterm
  \/ SigtermJoin
  \/ DaemonWait
  \/ FlushBegin
  \/ FlushEnd

\* The flushing thread is scheduled, its wait times out or is woken, and
\* the flush function returns; a join whose thread has exited returns.
\* Whether a signal arrives and whether the caller ever leaves the body is
\* left open.
SpecDaemon ==
  /\ Init
  /\ [][NextDaemon]_vars
  /\ WF_vars(DaemonWait)
  /\ WF_vars(FlushBegin)
  /\ WF_vars(FlushEnd)
  /\ WF_vars(Join)
  /\ WF_vars(SigtermJoin)

\* ------------------------------------------------------------------ claims

\* the calls of merge_calls of the given kind
CallsOfKind(kind) ==
  {i \in DOMAIN merge_calls : merge_calls[i].kind = kind}

\* minimize_corpus returned for the i-th Runner.merge invocation
CallSucceeded(i) ==
  /\ ~merge_calls[i].raised
  /\ ~merge_calls[i].timed_out
  /\ merge_calls[i].return_code = 0

\* a Runner.merge invocation of the call ended with an exception of the
\* Runner's own
RunnerMergeRaised == \E i \in DOMAIN merge_calls : merge_calls[i].raised

\* a fuzz() call with merge-back has ended after its merge raised
MergeRaisedInFuzz ==
  /\ pc = "done"
  /\ ret.op = "fuzz"
  /\ fz.merge_back
  /\ two_step_ret.kind = "raised"
  /\ two_step_ret.exc \in {"MergeError", "TimeoutError"}

\* C1: when the merge started by _merge_new_units raises MergeError or
\* TimeoutError (in step 1, in step 2, at the budget check or in the
\* single-step fallback), fuzz() returns a FuzzResult whose stats hold
\* new_units_added = 0; the exception does not reach the caller.
C1_MergeFailureIsCaught ==
  MergeRaisedInFuzz =>
    /\ ret.kind = "returned"
    /\ "new_units_added" \in DOMAIN ret.stats
    /\ ret.stats["new_units_added"] = 0

C1_Witness ==
  /\ MergeRaisedInFuzz
  /\ two_step_ret.exc = "TimeoutError"
  /\ two_step_ret.at = "step2"
  /\ ret.kind = "returned"

\* C2: when the new-corpus directory holds no file as _merge_new_units is
\* called, Runner.merge is not invoked, no merge-output directory is
\* created, and the stats hold new_units_added = 0.
C2_NoNewUnitsNoMerge ==
  (fz.merge_back /\ fs.new = {}) =>
    /\ pc = "done"
    /\ merge_calls = <<>>
    /\ "merge-corpus" \notin created
    /\ "new_units_added" \in DOMAIN ret.stats
    /\ ret.stats["new_units_added"] = 0

C2_Witness ==
  /\ pc = "done"
  /\ ret.op = "fuzz"
  /\ fz.merge_back
  /\ fs.new = {}
  /\ merge_calls = <<>>
  /\ ret.stats["new_units_added"] = 0

\* step 1 of a two-step merge succeeded with an elapsed time that is at
\* least the original max_time
Step1UsedTheBudget ==
  /\ CallsOfKind("step1") # {}
  /\ \A i \in CallsOfKind("step1") :
       CallSucceeded(i)
         /\ merge_calls[i].time_executed >= merge_calls[i].merge_timeout

\* C3: on a target that supports multistep merge, when step 1 succeeds with
\* an elapsed time >= the original max_time, _minimize_corpus_two_step
\* raises TimeoutError and Runner.merge is not invoked a second time.
C3_BudgetGuard ==
  Step1UsedTheBudget =>
    /\ pc = "done"
    /\ two_step_ret.kind = "raised"
    /\ two_step_ret.exc = "TimeoutError"
    /\ Len(merge_calls) = 1

C3_Witness ==
  /\ Step1UsedTheBudget
  /\ merge_calls[1].time_executed = merge_calls[1].merge_timeout
  /\ two_step_ret.at = "budget"
  /\ Len(merge_calls) = 1

\* C4: within one two-step merge, Runner.merge gets the same non-empty
\* merge_control_file path in step 1 and in step 2.
C4_SameControlFileInBothSteps ==
  \A i \in CallsOfKind("step1"), j \in CallsOfKind("step2") :
    /\ merge_calls[i].merge_control_file # None
    /\ merge_calls[j].merge_control_file = merge_calls[i].merge_control_file

C4_Witness ==
  /\ CallsOfKind("step1") # {}
  /\ CallsOfKind("step2") # {}
  /\ \A j \in CallsOfKind("step2") :
       merge_calls[j].merge_control_file = McfPath

\* C5: whenever a _minimize_corpus_two_step call ends, by returning or by
\* raising, the engine's merge control file reference is None.
C5_ControlFileClearedOnEveryExit ==
  (pc = "done" /\ two_step_ret.kind # "none") => merge_control_file = None

\* C6: a Runner.merge invocation that is not step 1 or step 2 of a running
\* two-step merge (a direct minimize_corpus call, the single-step fallback)
\* gets no merge control file, whatever calls were made before.
C6_NoStaleControlFile ==
  \A i \in CallsOfKind("direct") \cup CallsOfKind("single") :
    merge_calls[i].merge_control_file = None

\* the multistep path of _minimize_corpus_two_step returned
TwoStepReturned ==
  two_step_ret.kind = "returned" /\ two_step_ret.at = "step2"

\* C7: every result the multistep path of _minimize_corpus_two_step
\* returns has new_edges >= 0 and new_features >= 0, also when step 2
\* reports lower coverage than step 1.
C7_NewCoverageNotNegative ==
  TwoStepReturned =>
    /\ two_step_ret.stats.new_edges >= 0
    /\ two_step_ret.stats.new_features >= 0

C7_Witness ==
  /\ TwoStepReturned
  /\ two_step_ret.stats.edge_coverage
       < two_step_ret.stats.initial_edge_coverage
  /\ two_step_ret.stats.new_edges = 0

\* both steps of a two-step merge succeeded and a raw coverage delta
\* (step 2 minus step 1) is negative
NegativeRawDelta ==
  /\ pc = "done"
  /\ CallsOfKind("step1") # {}
  /\ CallsOfKind("step2") # {}
  /\ \A i \in CallsOfKind("step1"), j \in CallsOfKind("step2") :
       /\ CallSucceeded(i)
       /\ CallSucceeded(j)
       /\ \/ merge_calls[j].edge_coverage < merge_calls[i].edge_coverage
          \/ merge_calls[j].feature_coverage
               < merge_calls[i].feature_coverage

\* C8: when a raw coverage delta of a two-step merge is negative,
\* _minimize_corpus_two_step raises nothing and returns new_edges = 0 and
\* new_features = 0, and _merge_new_units moves the merged units and counts
\* new_units_added as for a consistent merge.
C8_NegativeDeltaIsClamped ==
  NegativeRawDelta =>
    /\ two_step_ret.kind = "returned"
    /\ two_step_ret.stats.new_edges = 0
    /\ two_step_ret.stats.new_features = 0
    /\ ret.kind = "returned"
    /\ ret.stats["new_edges"] = 0
    /\ ret.stats["new_features"] = 0
    /\ \A j \in CallsOfKind("step2") :
         fs.corpus = mg.old_corpus \cup merge_calls[j].out_units
    /\ ret.stats["new_units_added"]
         = Cardinality(fs.corpus) - Cardinality(mg.old_corpus)

C8_Witness ==
  /\ NegativeRawDelta
  /\ two_step_ret.stats.edge_coverage
       < two_step_ret.stats.initial_edge_coverage
  /\ two_step_ret.stats.feature_coverage
       > two_step_ret.stats.initial_feature_coverage
  /\ two_step_ret.stats.new_features = 0
  /\ ret.stats["new_units_added"] = 1

\* a fuzz() call has ended whose run left no crash-artifact path in the
\* output and whose return code is outside the non-crash set
StartupCrash ==
  /\ pc = "done"
  /\ ret.op = "fuzz"
  /\ fz.result.testcase_path = None
  /\ fz.result.return_code \notin NONCRASH_RETURN_CODES

C10_ParsedPathIsKept ==
  (pc = "done" /\ ret.op = "fuzz" /\ fz.result.testcase_path # None) =>
    /\ ret.crashes = <<fz.result.testcase_path>>
    /\ fs.placeholders = 0

\* a fuzz() call has returned a FuzzResult
FuzzReturned == ret.op = "fuzz" /\ ret.kind = "returned"

\* C11: every FuzzResult fuzz() returns has zero or one Crash, whatever the
\* parsed crash path, the return code and the kernel-panic marker; the
\* results of minimize_corpus and _minimize_corpus_two_step have an empty
\* crash list.
C11_AtMostOneCrash ==
  /\ FuzzReturned => Len(ret.crashes) <= 1
  /\ (ret.op = "minimize_corpus" /\ ret.kind = "returned")
       => ret.crashes = <<>>
  /\ two_step_ret.kind = "returned" => two_step_ret.crashes = <<>>

C11_Witness ==
  /\ FuzzReturned
  /\ fz.result.testcase_path # None
  /\ fz.result.kernel_panic
  /\ fz.result.return_code \notin NONCRASH_RETURN_CODES
  /\ Len(ret.crashes) = 1
  /\ two_step_ret.kind = "returned"

\* _merge_new_units has started a merge on a target that lacks the
\* multistep-merge marker, or whose file does not exist
FallbackCase ==
  /\ fz.merge_back
  /\ fs.new # {}
  /\ ~(fz.target.exists /\ fz.target.has_token)

\* C12: for a target lacking the multistep-merge marker (or whose file does
\* not exist), _minimize_corpus_two_step makes exactly one Runner.merge
\* invocation, over [output_dir] + existing_corpus_dirs + [new_corpus_dir]
\* with the full max_time, returns or raises what minimize_corpus does for
\* it, and its stats hold no initial_* or new_* key.
C12_FallbackIsSingleStep ==
  FallbackCase =>
    /\ pc \in {"single", "done"}
    /\ CallsOfKind("step1") = {}
    /\ CallsOfKind("step2") = {}
    /\ pc = "single" => merge_calls = <<>>
    /\ pc = "done" =>
         /\ Len(merge_calls) = 1
         /\ merge_calls[1].dirs
              = <<mg.output_corpus_dir>> \o mg.existing_corpus_dirs
                  \o <<mg.new_corpus_dir>>
         /\ merge_calls[1].merge_timeout = get_merge_timeout
         /\ two_step_ret.exc
              = (IF merge_calls[1].raised THEN "RunnerError"
                 ELSE IF merge_calls[1].timed_out THEN "TimeoutError"
                 ELSE IF merge_calls[1].return_code # 0 THEN "MergeError"
                 ELSE None)
         /\ two_step_ret.kind
              = (IF CallSucceeded(1) THEN "returned" ELSE "raised")
         /\ CallSucceeded(1) =>
              /\ DOMAIN two_step_ret.stats
                   = {"edge_coverage", "feature_coverage"}
              /\ two_step_ret.stats.edge_coverage
                   = merge_calls[1].edge_coverage
              /\ two_step_ret.stats.feature_coverage
                   = merge_calls[1].feature_coverage
              /\ two_step_ret.time_executed = merge_calls[1].time_executed

C12_Witness ==
  /\ FallbackCase
  /\ fz.target.exists
  /\ pc = "done"
  /\ Len(merge_calls) = 1
  /\ two_step_ret.kind = "returned"
  /\ two_step_ret.stats.edge_coverage = MaxCov

\* the keys fuzz() stores before merge-back
FuzzStatKeys ==
  {"timeout_limit", "expected_duration", "actual_duration",
   "fuzzing_time_percent"}

\* C13: the stats of every FuzzResult fuzz() returns hold timeout_limit,
\* expected_duration, actual_duration and fuzzing_time_percent, and, with
\* merge-back enabled, new_units_added, whether the merge was skipped,
\* succeeded or failed; the stats copied from the merge result neither
\* remove nor overwrite these keys.
C13_StatCompleteness ==
  FuzzReturned =>
    /\ FuzzStatKeys \subseteq DOMAIN ret.stats
    /\ \A k \in FuzzStatKeys : ret.stats[k] = fz.parsed_stats[k]
    /\ ret.stats["expected_duration"] = fz.max_time
    /\ ret.stats["actual_duration"] = fz.result.time_executed
    /\ fz.merge_back => "new_units_added" \in DOMAIN ret.stats

C13_Witness ==
  /\ FuzzReturned
  /\ fz.merge_back
  /\ TwoStepReturned
  /\ "new_edges" \in DOMAIN ret.stats
  /\ FuzzStatKeys \subseteq DOMAIN ret.stats
  /\ ret.stats["new_units_added"] = 1

\* C14: minimize_corpus raises TimeoutError whenever the Runner result is
\* timed out (whatever its return code), raises MergeError whenever the
\* result is not timed out and its return code is non-zero, and returns a
\* result with the parsed merge stats only when the result is not timed
\* out and the return code is 0.
C14_MinimizeCorpusOutcome ==
  \A i \in CallsOfKind("direct") :
    /\ ret.op = "minimize_corpus"
    /\ merge_calls[i].timed_out
         => (ret.kind = "raised" /\ ret.exc = "TimeoutError")
    /\ (~merge_calls[i].timed_out /\ merge_calls[i].return_code # 0)
         => (ret.kind = "raised" /\ ret.exc = "MergeError")
    /\ CallSucceeded(i)
         => /\ ret.kind = "returned"
            /\ ret.stats = [edge_coverage |-> merge_calls[i].edge_coverage,
                            feature_coverage |->
                              merge_calls[i].feature_coverage]
            /\ ret.time_executed = merge_calls[i].time_executed
    /\ ret.kind = "returned" => CallSucceeded(i)

C14_Witness ==
  /\ CallsOfKind("direct") = {1}
  /\ merge_calls[1].timed_out
  /\ merge_calls[1].return_code # 0
  /\ ret.kind = "raised"
  /\ ret.exc = "TimeoutError"

\* a reproduction operation has ended
ReproductionEnded ==
  pc = "done" /\ rp.op \in {"reproduce", "minimize_testcase", "cleanse"}

\* C15: reproduce, minimize_testcase and cleanse each invoke their Runner
\* capability exactly once, with max_time; a timed-out result makes the
\* operation raise TimeoutError; any other result, whatever its return code,
\* is returned as a ReproduceResult with the Runner's command, return code,
\* elapsed time and output.
C15_ReproductionOutcome ==
  ReproductionEnded =>
    /\ Len(rp.runner_calls) = 1
    /\ rp.runner_calls[1].timeout = rp.max_time
    /\ rp.runner_calls[1].capability =
         CASE rp.op = "reproduce" -> "run_single_testcase"
           [] rp.op = "minimize_testcase" -> "minimize_crash"
           [] rp.op = "cleanse" -> "cleanse_crash"
    /\ ret.op = rp.op
    /\ IF rp.runner_result.timed_out
         THEN ret.kind = "raised" /\ ret.exc = "TimeoutError"
         ELSE /\ ret.kind = "returned"
              /\ rp.result.command = rp.runner_result.command
              /\ rp.result.return_code = rp.runner_result.return_code
              /\ rp.result.time_executed = rp.runner_result.time_executed
              /\ rp.result.output = rp.runner_result.output

\* a cleanse call has returned the result of a run that ended with a
\* non-zero return code
C15_Witness ==
  /\ ReproductionEnded
  /\ rp.op = "cleanse"
  /\ ~rp.runner_result.timed_out
  /\ rp.runner_result.return_code # 0
  /\ ret.kind = "returned"
  /\ rp.result.return_code = rp.runner_result.return_code

\* the arguments the Runner got hold no fuzzing-only flag
RunnerGotNoFuzzingFlag ==
  DOMAIN rp.runner_calls[1].additional_args \cap FuzzingOnlyFlags = {}

\* C16 as stated: after any of the three operations, the arguments the
\* Runner received hold no fuzzing-only flag (reproduce: none but the forced
\* runs flag), and reproduce has set the runs flag to RUNS_TO_REPRODUCE.
C16_AllThreeStrip ==
  ReproductionEnded =>
    IF rp.op = "reproduce"
      THEN /\ DOMAIN rp.runner_calls[1].additional_args \cap FuzzingOnlyFlags
                = {RUNS_FLAGNAME}
           /\ rp.runner_calls[1].additional_args[RUNS_FLAGNAME] =
                RUNS_TO_REPRODUCE
      ELSE RunnerGotNoFuzzingFlag

\* C16, amended: only reproduce strips the fuzzing-only flags and then sets
\* the runs flag to RUNS_TO_REPRODUCE; minimize_testcase and cleanse hand
\* the caller's argument list to the Runner as it is, fuzzing-only flags
\* included.
C16_OnlyReproduceStrips ==
  ReproductionEnded =>
    LET got == rp.runner_calls[1].additional_args
    IN IF rp.op = "reproduce"
         THEN /\ DOMAIN got \cap FuzzingOnlyFlags = {RUNS_FLAGNAME}
              /\ got[RUNS_FLAGNAME] = RUNS_TO_REPRODUCE
              /\ \A f \in DOMAIN rp.arguments \ FuzzingOnlyFlags :
                   f \in DOMAIN got /\ got[f] = rp.arguments[f]
         ELSE got = rp.arguments

\* minimize_testcase was called with a list holding the runs flag, and the
\* Runner received that flag
C16_Witness ==
  /\ ReproductionEnded
  /\ rp.op = "minimize_testcase"
  /\ RUNS_FLAGNAME \in DOMAIN rp.arguments
  /\ RUNS_FLAGNAME \in DOMAIN rp.runner_calls[1].additional_args

\* a prepare() call has returned
PrepareReturned == pc = "done" /\ pz.called

\* the names both the target's extra environment and the strategy step
\* define
DefinedByBoth ==
  IF pz.extra_env.is_none THEN {}
  ELSE DOMAIN pz.extra_env.env \cap DOMAIN pz.strategy_extra_env

\* C17 as stated: for every name defined by both the target's extra
\* environment and the strategy step, the extra_env of the returned options
\* holds the target-supplied value.
C17_TargetValueKept ==
  PrepareReturned =>
    \A n \in DefinedByBoth :
      pz.options.extra_env[n] = pz.extra_env.env[n]

\* C17, amended: the extra_env of the returned options holds exactly the
\* names either side defines; every name the strategy step defines keeps the
\* strategy-supplied value, also when the target defines it too, and a
\* target-supplied value is taken only for a name the strategy step does not
\* define.
C17_StrategyValueKept ==
  PrepareReturned =>
    LET target_env == IF pz.extra_env.is_none
                        THEN [n \in {} |-> "target"] ELSE pz.extra_env.env
        env == pz.options.extra_env
    IN /\ DOMAIN env = DOMAIN target_env \cup DOMAIN pz.strategy_extra_env
       /\ \A n \in DOMAIN pz.strategy_extra_env :
            env[n] = pz.strategy_extra_env[n]
       /\ \A n \in DOMAIN target_env \ DOMAIN pz.strategy_extra_env :
            env[n] = target_env[n]

\* prepare() has returned for a name defined by both sides, and for a name
\* only the target defines
C17_Witness ==
  /\ PrepareReturned
  /\ "ASAN_OPTIONS" \in DefinedByBoth
  /\ pz.options.extra_env["ASAN_OPTIONS"] = "strategy"
  /\ "TMPDIR" \in DOMAIN pz.extra_env.env \ DOMAIN pz.strategy_extra_env
  /\ pz.options.extra_env["TMPDIR"] = "target"

\* a fuzz() call is running or has ended
InFuzz == op = "fuzz" \/ (pc = "done" /\ ret.op = "fuzz")

\* a fuzz() call has ended
FuzzEnded == pc = "done" /\ ret.op = "fuzz"

\* C18: with merge-back enabled, Runner.fuzz is given the recreated
\* new-corpus directory followed by options.fuzz_corpus_dirs in their order;
\* the directory holds only what the run wrote, and it is the directory
\* _merge_new_units inspects (the merge is skipped exactly when it is empty)
\* and hands to the merge as new_corpus_dir.
C18_NewCorpusDirFirst ==
  (InFuzz /\ fz.merge_back) =>
    LET new_corpus_dir == create_temp_fuzzing_dir("new")
    IN /\ fz.runner_fuzz_calls[1].corpus_directories =
            <<new_corpus_dir>> \o fz.fuzz_corpus_dirs
       /\ "new" \in created
       /\ fs.new = fz.result.new_units
       /\ (FuzzEnded /\ merge_calls = <<>>) => SkipMerge(fs.new)
       /\ merge_calls # <<>> => ~SkipMerge(fs.new)
       /\ pc \in {"step1", "step2", "single"} =>
            mg.new_corpus_dir = new_corpus_dir
       /\ \A i \in DOMAIN merge_calls :
            merge_calls[i].kind \in {"step2", "single"} =>
              merge_calls[i].dirs[Len(merge_calls[i].dirs)] = new_corpus_dir

\* a fuzz() call with merge-back over a subset directory has merged the
\* units of the new-corpus directory in step 2
C18_Witness ==
  /\ FuzzEnded
  /\ fz.merge_back
  /\ fz.fuzz_corpus_dirs = <<"subset">>
  /\ fs.new # {}
  /\ Len(merge_calls) = 2
  /\ merge_calls[2].kind = "step2"
  /\ merge_calls[2].dirs[Len(merge_calls[2].dirs)] =
       create_temp_fuzzing_dir("new")

\* C19 as stated: with merge_back_new_testcases false, fuzz() passes
\* options.fuzz_corpus_dirs to Runner.fuzz unchanged, creates no new-corpus
\* directory, never invokes Runner.merge, and the main corpus directory holds
\* after the call what it held before.
C19_MainCorpusUnchanged ==
  (FuzzEnded /\ ~fz.merge_back) =>
    /\ fz.runner_fuzz_calls[1].corpus_directories = fz.fuzz_corpus_dirs
    /\ "new" \notin created
    /\ merge_calls = <<>>
    /\ fs.corpus = fz.corpus_before

\* C19, amended: with merge_back_new_testcases false, fuzz() passes
\* options.fuzz_corpus_dirs to Runner.fuzz unchanged, creates no new-corpus
\* directory, never invokes Runner.merge, and changes nothing in the main
\* corpus directory once Runner.fuzz has returned; the fuzz run itself
\* writes its new units to the first directory it is given, so the main
\* corpus is unchanged by the call only if it is not that first directory.
C19_NoMergeBack ==
  (FuzzEnded /\ ~fz.merge_back) =>
    /\ fz.runner_fuzz_calls[1].corpus_directories = fz.fuzz_corpus_dirs
    /\ "new" \notin created
    /\ merge_calls = <<>>
    /\ fs.corpus = fz.corpus_after_run
    /\ fs.corpus \subseteq fz.corpus_before \cup fz.result.new_units
    /\ fz.fuzz_corpus_dirs[1] # fz.corpus_dir =>
         fs.corpus = fz.corpus_before

\* a fuzz() call without merge-back, run over the main corpus directory
\* itself, has ended with a unit in the main corpus that was not there before
C19_Witness ==
  /\ FuzzEnded
  /\ ~fz.merge_back
  /\ fz.fuzz_corpus_dirs = <<"corpus">>
  /\ fz.result.new_units # {}
  /\ fs.corpus # fz.corpus_before
  /\ merge_calls = <<>>

ExplicitDict == DICT_FLAGNAME \in DOMAIN pz.arguments

SubsetApplied ==
  UseCorpusSubset(pz.do_subset, pz.corpus_count, pz.subset_size)

\* the positions of dir in the sequence dirs
Positions(dirs, dir) == {i \in DOMAIN dirs : dirs[i] = dir}

\* C22 as stated: when the corpus-subset strategy is applied, the subset
\* directory is the only fuzzing input directory of the returned options and
\* the strategy name labelled with the size is recorded; otherwise corpus_dir
\* is added and no subset directory is created; exactly one of the two is in
\* the list.
C22_SubsetIsSoleDirectory ==
  PrepareReturned =>
    LET dirs == pz.options.fuzz_corpus_dirs
        corpus_subset_dir == create_temp_fuzzing_dir("subset")
    IN /\ Cardinality(Positions(dirs, corpus_subset_dir)) +
            Cardinality(Positions(dirs, "corpus")) = 1
       /\ IF SubsetApplied
            THEN /\ dirs = <<corpus_subset_dir>>
                 /\ CorpusSubsetStrategyName(pz.subset_size)
                      \in pz.options.strategies
            ELSE /\ Positions(dirs, "corpus") # {}
                 /\ "subset" \notin created

\* C22, amended: prepare() appends exactly one directory to the additional
\* corpus directories the strategy step returned: the subset directory when
\* the corpus-subset strategy is applied (with the strategy name labelled
\* with the size recorded, and the main corpus not in the list), corpus_dir
\* otherwise (no subset directory created, no subset strategy recorded).
\* The directories of the strategy step stay in front of it.
C22_OneDirectoryAppended ==
  PrepareReturned =>
    LET dirs == pz.options.fuzz_corpus_dirs
        corpus_subset_dir == create_temp_fuzzing_dir("subset")
    IN /\ Len(dirs) = Len(pz.strategy_corpus_dirs) + 1
       /\ SubSeq(dirs, 1, Len(dirs) - 1) = pz.strategy_corpus_dirs
       /\ Cardinality(Positions(dirs, corpus_subset_dir)) +
            Cardinality(Positions(dirs, "corpus")) = 1
       /\ IF SubsetApplied
            THEN /\ dirs[Len(dirs)] = corpus_subset_dir
                 /\ "subset" \in created
                 /\ Cardinality(pz.subset_units) = pz.subset_size
                 /\ CorpusSubsetStrategyName(pz.subset_size)
                      \in pz.options.strategies
            ELSE /\ dirs[Len(dirs)] = "corpus"
                 /\ "subset" \notin created
                 /\ \A size \in SubsetSizes :
                      CorpusSubsetStrategyName(size)
                        \notin pz.options.strategies

\* prepare() took the corpus-subset branch after the strategy step had
\* returned a directory of its own: the returned list holds both
C22_Witness ==
  /\ PrepareReturned
  /\ SubsetApplied
  /\ pz.strategy_corpus_dirs = <<"mutations">>
  /\ pz.options.fuzz_corpus_dirs =
       <<"mutations", create_temp_fuzzing_dir("subset")>>

\* C23: fuzz() and _merge_new_units leave the FuzzOptions of the caller as
\* they were: arguments, fuzz_corpus_dirs, extra_env and corpus_dir hold
\* after the call what they held before, also when corpus_dir was appended to
\* the merge input list.
C23_OptionsUnchanged ==
  InFuzz =>
    /\ fz.options_after.arguments = fz.options_before.arguments
    /\ fz.options_after.fuzz_corpus_dirs = fz.options_before.fuzz_corpus_dirs
    /\ fz.options_after.extra_env = fz.options_before.extra_env
    /\ fz.options_after.corpus_dir = fz.options_before.corpus_dir

\* a fuzz() call over a subset directory has ended after a merge whose
\* input list had corpus_dir appended, and the caller's list is as it was
C23_Witness ==
  /\ FuzzEnded
  /\ fz.options_before.fuzz_corpus_dirs = <<"subset">>
  /\ merge_calls # <<>>
  /\ mg.existing_corpus_dirs = <<"subset", "corpus">>
  /\ fz.options_after.fuzz_corpus_dirs = <<"subset">>

\* the positions of event in the trace t
EventsAt(t, event) == {j \in DOMAIN t : t[j] = event}

\* C24: every minimize_corpus call recreates the merge working directory
\* before Runner.merge and recreates it again after Runner.merge has ended,
\* whether the Runner returned a good result, a timed-out one, one with a
\* non-zero return code, or raised an exception of its own.
C24_WorkingDirRecreated ==
  \A i \in DOMAIN merge_calls :
    LET t == merge_calls[i].trace
    IN /\ "merge-wd" \in created
       /\ Cardinality(EventsAt(t, "Runner.merge")) = 1
       /\ \A j \in EventsAt(t, "Runner.merge") :
            /\ \E k \in EventsAt(t, "recreate merge-wd") : k < j
            /\ \E k \in EventsAt(t, "recreate merge-wd") : k > j
       /\ t[Len(t)] = "recreate merge-wd"

\* a direct minimize_corpus call has ended with the exception Runner.merge
\* raised, the working directory emptied after it
C24_Witness ==
  /\ pc = "done"
  /\ ret.op = "minimize_corpus"
  /\ Len(merge_calls) = 1
  /\ merge_calls[1].raised
  /\ ret.kind = "raised"
  /\ ret.exc = "RunnerError"
  /\ merge_calls[1].trace[3] = "recreate merge-wd"

\* C25: in a two-step merge, Runner.merge gets the original max_time as its
\* timeout in step 1, and in step 2 that max_time minus the elapsed time
\* step 1 reported; step 2 is only ever invoked with a timeout > 0.
C25_Step2Timeout ==
  /\ \A i \in CallsOfKind("step1") :
       merge_calls[i].merge_timeout = get_merge_timeout
  /\ \A j \in CallsOfKind("step2") :
       /\ CallsOfKind("step1") # {}
       /\ merge_calls[j].merge_timeout > 0
       /\ \A i \in CallsOfKind("step1") :
            merge_calls[j].merge_timeout =
              merge_calls[i].merge_timeout - merge_calls[i].time_executed

\* step 2 has been invoked with less than the original budget
C25_Witness ==
  /\ Len(merge_calls) = 2
  /\ merge_calls[1].kind = "step1"
  /\ merge_calls[2].kind = "step2"
  /\ merge_calls[1].time_executed > 0
  /\ merge_calls[2].merge_timeout < merge_calls[1].merge_timeout

\* C26: in every result the multistep path of _minimize_corpus_two_step
\* returns, initial_edge_coverage and initial_feature_coverage are step 1's
\* values, edge_coverage and feature_coverage are step 2's, new_edges and
\* new_features are the differences when neither difference is negative, and
\* the elapsed time is the sum of the elapsed times of the two steps.
C26_TwoStepResult ==
  TwoStepReturned =>
    /\ Len(merge_calls) = 2
    /\ LET s == two_step_ret.stats
           step1 == merge_calls[1]
           step2 == merge_calls[2]
       IN /\ step1.kind = "step1" /\ step2.kind = "step2"
          /\ s.initial_edge_coverage = step1.edge_coverage
          /\ s.initial_feature_coverage = step1.feature_coverage
          /\ s.edge_coverage = step2.edge_coverage
          /\ s.feature_coverage = step2.feature_coverage
          /\ (step2.edge_coverage >= step1.edge_coverage
                /\ step2.feature_coverage >= step1.feature_coverage) =>
               /\ s.new_edges = s.edge_coverage - s.initial_edge_coverage
               /\ s.new_features =
                    s.feature_coverage - s.initial_feature_coverage
          /\ two_step_ret.time_executed =
               step1.time_executed + step2.time_executed

\* a two-step merge has returned new coverage found by step 2
C26_Witness ==
  /\ TwoStepReturned
  /\ two_step_ret.stats.new_edges > 0
  /\ two_step_ret.stats.new_features = 0
  /\ two_step_ret.stats.initial_feature_coverage > 0
  /\ two_step_ret.time_executed = 2

\* the merge of a fuzz() call has been started
MergeStarted == InFuzz /\ fz.merge_back /\ ~SkipMerge(fs.new)

\* C27: the existing-corpus list _merge_new_units hands to the two-step
\* merge is fuzz_corpus_dirs in order, followed by corpus_dir if
\* fuzz_corpus_dirs does not hold it; corpus_dir is in the list once, and
\* the new-corpus directory is not among the inputs of step 1.
C27_MergeInputs ==
  MergeStarted =>
    LET dirs == mg.existing_corpus_dirs
        n == Len(fz.fuzz_corpus_dirs)
    IN /\ SubSeq(dirs, 1, n) = fz.fuzz_corpus_dirs
       /\ Cardinality(Positions(dirs, fz.corpus_dir)) = 1
       /\ IF Positions(fz.fuzz_corpus_dirs, fz.corpus_dir) # {}
            THEN dirs = fz.fuzz_corpus_dirs
            ELSE dirs = Append(fz.fuzz_corpus_dirs, fz.corpus_dir)
       /\ \A i \in CallsOfKind("step1") :
            /\ merge_calls[i].dirs = <<mg.output_corpus_dir>> \o dirs
            /\ Positions(merge_calls[i].dirs, mg.new_corpus_dir) = {}

\* step 1 has run over a list that held corpus_dir already, behind another
\* directory
C27_Witness ==
  /\ MergeStarted
  /\ fz.fuzz_corpus_dirs = <<"mutations", "corpus">>
  /\ CallsOfKind("step1") = {1}
  /\ merge_calls[1].dirs =
       <<create_temp_fuzzing_dir("merge-corpus"), "mutations", "corpus">>

\* the statistics a merge can add to the stats mapping
MergeStatKeys ==
  {"edge_coverage", "feature_coverage", "initial_edge_coverage",
   "initial_feature_coverage", "new_edges", "new_features"}

\* C28: when the merge of _merge_new_units fails with MergeError or
\* TimeoutError, corpus_dir holds what it held before the merge and the stats
\* gain new_units_added = 0 and no merge statistic; when the merge succeeds,
\* new_units_added is the file count of corpus_dir after the move minus the
\* count before the merge.
C28_FailedMergeLeavesNoTrace ==
  /\ MergeRaisedInFuzz =>
       /\ fs.corpus = mg.old_corpus
       /\ DOMAIN ret.stats \cap MergeStatKeys = {}
       /\ DOMAIN ret.stats = DOMAIN fz.parsed_stats \cup {"new_units_added"}
       /\ ret.stats["new_units_added"] = 0
  /\ (FuzzEnded /\ two_step_ret.kind = "returned") =>
       ret.stats["new_units_added"] =
         Cardinality(fs.corpus) - Cardinality(mg.old_corpus)

\* step 2 of a merge failed after it had written a unit the corpus does not
\* hold, and the corpus is as it was
C28_Witness ==
  /\ MergeRaisedInFuzz
  /\ two_step_ret.at = "step2"
  /\ two_step_ret.exc = "MergeError"
  /\ fs.out # {}
  /\ fs.out \cap fs.corpus = {}
  /\ ret.stats["new_units_added"] = 0

\* C29: in a two-step merge the output directory is emptied once step 1 has
\* succeeded, before the budget check and before step 2: it is empty when
\* step 2 is about to start and when the call fails on the budget check, and
\* when the call returns it holds the units step 2 wrote and none of step 1
\* (so these alone are moved to the corpus).
C29_OutputEmptiedAfterStep1 ==
  /\ pc = "step2" => fs.out = {}
  /\ (pc = "done" /\ two_step_ret.at = "budget") => fs.out = {}
  /\ (pc = "done" /\ TwoStepReturned) =>
       /\ fs.out \subseteq merge_calls[2].out_units
       /\ fs.corpus = mg.old_corpus \cup merge_calls[2].out_units

\* a two-step merge has returned after step 1 wrote a unit that step 2 did
\* not write: the unit has not reached the corpus
C29_Witness ==
  /\ pc = "done"
  /\ TwoStepReturned
  /\ merge_calls[1].out_units # {}
  /\ merge_calls[2].out_units = {}
  /\ merge_calls[1].out_units \cap fs.corpus = {}

\* C30: within one fuzz() call Runner.fuzz has ended before a Runner.merge
\* is invoked; a two-step merge makes at most two Runner.merge invocations
\* with its merge control file, step 1 first and step 2 second, step 2 only
\* after step 1 returned a good result; and no Runner.merge invocation
\* follows one that failed.
C30_MergeOrder ==
  InFuzz =>
    /\ Len(fz.runner_fuzz_calls) = 1
    /\ pc \in {"step1", "single"} => merge_calls = <<>>
    /\ merge_calls # <<>> => fz.result.time_executed > 0
    /\ Len(merge_calls) <= 2
    /\ CallsOfKind("step1") \subseteq {1}
    /\ CallsOfKind("step2") \subseteq {2}
    /\ CallsOfKind("step2") # {} =>
         /\ CallsOfKind("step1") = {1}
         /\ CallSucceeded(1)
         /\ merge_calls[2].merge_control_file =
              merge_calls[1].merge_control_file
    /\ pc = "step2" =>
         /\ CallsOfKind("step1") = {1}
         /\ CallSucceeded(1)
    /\ \A i \in DOMAIN merge_calls :
         ~CallSucceeded(i) => (i = Len(merge_calls) /\ pc = "done")

\* step 1 returned a good result, step 2 timed out, and the call has ended
\* with these two invocations
C30_Witness ==
  /\ FuzzEnded
  /\ Len(merge_calls) = 2
  /\ merge_calls[1].kind = "step1"
  /\ CallSucceeded(1)
  /\ merge_calls[2].kind = "step2"
  /\ merge_calls[2].timed_out

\* a fuzz() call has ended whose run gave nothing to report: no
\* crash-artifact path, a return code of the non-crash set, no kernel panic
NothingToReport ==
  /\ FuzzEnded
  /\ fz.result.testcase_path = None
  /\ fz.result.return_code \in NONCRASH_RETURN_CODES
  /\ ~fz.result.kernel_panic

\* C31: when the parser finds no crash-artifact path, the return code is in
\* the non-crash set and the log has no kernel-panic marker, fuzz() creates
\* no placeholder file and the FuzzResult it returns has an empty crash
\* list, also when the run timed out.
C31_NoCrashReported ==
  NothingToReport =>
    /\ fs.placeholders = 0
    /\ fz.crash_testcase_file_path = None
    /\ FuzzReturned => ret.crashes = <<>>

C31_Witness ==
  /\ NothingToReport
  /\ FuzzReturned
  /\ fz.result.timed_out
  /\ fz.result.return_code = LIBFUZZER_ERROR_EXITCODE
  /\ fz.merge_back
  /\ ret.crashes = <<>>

\* the errors fuzz() logged for the output of the fuzz run
LoggedSet == {fz.logged[i] : i \in DOMAIN fz.logged}

\* the engine-error condition of fuzz()
EngineErrorCase ==
  /\ ~fz.output.dict_parsing_failed
  /\ ~fz.output.use_minijail
  /\ fz.result.return_code = LIBFUZZER_ERROR_EXITCODE

\* C32: fuzz() logs at most one of the two output-classification errors:
\* the dictionary failure alone when the output matches its pattern, also
\* with the engine-error return code; the engine error exactly when there
\* is no dictionary failure, the run is not under the sandboxing layer and
\* the return code is the engine-error code. Neither error stops the phase:
\* the crash path is decided, the stats are set, the merge is started for
\* new units and a FuzzResult is returned as without the error.
C32_OneErrorLogged ==
  InFuzz =>
    /\ Len(fz.logged) <= 1
    /\ "Dictionary parsing failed" \in LoggedSet
         <=> fz.output.dict_parsing_failed
    /\ ENGINE_ERROR_MESSAGE \in LoggedSet <=> EngineErrorCase
    /\ fz.crash_testcase_file_path = CrashTestcaseFilePath(fz.result)
    /\ fz.parsed_stats = InitialStats(fz.result, fz.max_time)
    /\ (fz.merge_back /\ fz.result.new_units # {}) =>
         (Len(merge_calls) >= 1 \/ pc \in {"step1", "single"})
    /\ (FuzzEnded /\ ~RunnerMergeRaised) =>
         /\ ret.kind = "returned"
         /\ FuzzStatKeys \subseteq DOMAIN ret.stats
         /\ ret.crashes = IF fz.crash_testcase_file_path # None
                            THEN <<fz.crash_testcase_file_path>> ELSE <<>>

\* a run with a dictionary failure and the engine-error return code, outside
\* the sandboxing layer, has logged the dictionary failure alone and has
\* been returned after a merge that succeeded
C32_Witness ==
  /\ FuzzEnded
  /\ fz.output.dict_parsing_failed
  /\ ~fz.output.use_minijail
  /\ fz.result.return_code = LIBFUZZER_ERROR_EXITCODE
  /\ fz.logged = <<"Dictionary parsing failed">>
  /\ ret.kind = "returned"
  /\ two_step_ret.kind = "returned"
  /\ ret.stats["new_units_added"] = 1

\* a stop() call on a started daemon has returned: the one of the finally,
\* or the one of the signal handler
StopReturned == daemon_made /\ (caller = "returned" \/ handler = "done")

\* C33: for a started daemon whose flush function returns, a stop() call,
\* of the finally or of the signal handler, eventually returns; when it has
\* returned the flushing thread has exited (so the flush function is not
\* running and never runs again) and the flush function was called at
\* least once after the stop event was set.
C33_StopFlushesAndJoins ==
  /\ [](StopReturned => /\ thread = "exited"
                        /\ flushes_after_set >= 1)
  /\ [][thread = "exited" => thread' = "exited"]_vars
  /\ ((daemon_made /\ handler = "join") ~> handler = "done")
  /\ ((daemon_made /\ caller = "join") ~> caller = "returned")

\* both stop() calls have returned, the handler's one inside the join of the
\* other, after two flushes that began with the event set: the wait had
\* timed out just before the event was set
C33_Witness ==
  /\ daemon_made
  /\ caller = "returned"
  /\ handler = "done"
  /\ thread = "exited"
  /\ flushes_after_set = 2
  /\ ticks = MaxTicks

\* C34: under any interleaving of increment and put calls of several
\* threads no update is lost: a key that was only incremented holds the
\* default value plus the sum of the deltas of the completed increments;
\* and what a reader gets for a key is a (start_time, value) pair that one
\* update wrote, with the start time the key has had since its first
\* update.
C34_NoLostUpdate ==
  /\ \A k \in DOMAIN store :
       /\ k \in DOMAIN hist
       /\ hist[k].puts = 0 => store[k].value = default_value + hist[k].sum
  /\ \A t \in Threads :
       (locals[t].observed # <<>> /\ locals[t].observed # <<"KeyError">>) =>
         /\ locals[t].key \in DOMAIN hist
         /\ locals[t].observed \in hist[locals[t].key].pairs
         /\ locals[t].observed[1] = hist[locals[t].key].first

\* three increments, made by two threads under label mappings in both
\* orders, have added up in one key
C34_Witness ==
  \E k \in DOMAIN store :
    /\ hist[k].puts = 0
    /\ hist[k].sum = 4
    /\ Cardinality(hist[k].pairs) = 3
    /\ store[k].value = 4
    /\ store[k].labels # k[2]
    /\ \A t \in Threads : locals[t].pc = "idle"

\* C35: the start_time of a key is the one set by the first put or
\* increment on it and no later put or increment changes it; a key is the
\* metric name with the label items in sorted order, so label mappings
\* with the same items in a different order address the same key.
C35_StartTimeIsStable ==
  /\ [](\A k \in DOMAIN store :
          /\ k \in DOMAIN hist
          /\ store[k].start_time = hist[k].first
          /\ k = <<store[k].metric, SortedItems(store[k].labels)>>
          /\ k[2] = SortedItems(k[2]))
  /\ [][\A k \in DOMAIN store :
          /\ k \in DOMAIN store'
          /\ store'[k].start_time = store[k].start_time]_vars

\* a key made by an increment has been put to under the same items in the
\* other order, after another key was made: it kept its start time
C35_Witness ==
  \E k \in DOMAIN store :
    /\ hist[k].puts = 1
    /\ hist[k].sum >= 1
    /\ Cardinality(hist[k].pairs) = 2
    /\ store[k].start_time = 1
    /\ now = 3
    /\ store[k].labels # k[2]
    /\ Len(k[2]) = 2

\* the series of all the calls of the run, one after the other
RECURSIVE SentSeries(_)
SentSeries(calls) ==
  IF calls = <<>> THEN <<>> ELSE Head(calls) \o SentSeries(Tail(calls))

\* C36: in a _flush_metrics run that raises no error every value of the
\* store is sent in exactly one _create_time_series call; every call, of
\* any run, carries between 1 and MAX_TIME_SERIES_PER_CALL series; no call
\* is made for an empty store.
C36_EveryValueSentOnce ==
  /\ \A c \in DOMAIN sent :
       Len(sent[c]) >= 1 /\ Len(sent[c]) <= MAX_TIME_SERIES_PER_CALL
  /\ fpc = "done" =>
       LET all == SentSeries(sent)
       IN /\ Len(all) = Len(fvalues)
          /\ {all[j].id : j \in DOMAIN all} = 1..Len(fvalues)
          /\ fvalues = <<>> => sent = <<>>

\* a run over 2 * MAX_TIME_SERIES_PER_CALL + 1 values has ended with three
\* calls, the last with one series; the first is sorted by start time
C36_Witness ==
  /\ fpc = "done"
  /\ Len(fvalues) = 2 * MAX_TIME_SERIES_PER_CALL + 1
  /\ Len(sent) = 3
  /\ Len(sent[3]) = 1
  /\ sent[1][1].id # 1
  /\ \A j \in 1..(MAX_TIME_SERIES_PER_CALL - 1) :
       sent[1][j].start_time <= sent[1][j + 1].start_time

\* callers that are running the fastboot commands of a turn
Flashing == {c \in Callers : cpc[c] = "flashing"}

\* C37: among concurrent callers on one host fastboot commands are run
\* only by the caller holding the host flash lock, so at most one flash is
\* in progress; a caller whose acquire_lock failed has run no fastboot
\* command, has written no last-flash key and has returned; a caller that
\* acquired the lock holds it through its retry loop, of at most
\* FLASH_RETRIES turns, and no longer once the loop has ended, whether its
\* last turn found the device or not.
C37_FlashUnderLock ==
  /\ \A c \in Flashing : flash_lock = c
  /\ Cardinality(Flashing) <= 1
  /\ fastboot_issued \subseteq acquired
  /\ \A c \in lock_failed :
       /\ c \notin fastboot_issued
       /\ c \notin key_writers
       /\ cpc[c] = "returned"
  /\ \A c \in acquired :
       /\ attempts[c] <= FLASH_RETRIES
       /\ cpc[c] \in {"attempt", "flashing", "release"} => flash_lock = c
       /\ cpc[c] \in {"check", "returned", "exited"} => flash_lock # c

\* one bot has given the lock back after FLASH_RETRIES turns that all
\* failed, the other, refused the lock before, has returned
C37_Witness ==
  \E c \in acquired, o \in lock_failed :
    /\ attempts[c] = FLASH_RETRIES
    /\ ~device_ok[c]
    /\ cpc[c] = "exited"
    /\ flash_lock = None
    /\ cpc[o] = "returned"

====
